---- MODULE Spec2Model ----
(***************************************************************************)
(* SpotiTransFair: the asynchronous, reviewable import pipeline.           *)
(*                                                                         *)
(* The model covers the job store (ImportJob, ImportItem, Connection), the *)
(* queue between the HTTP front end and the worker, the two worker stages  *)
(* (process_import_job, finalize_import_job), the review and finalize      *)
(* endpoints, the matcher and the target adapters as far as the worker     *)
(* uses them.                                                              *)
(*                                                                         *)
(* Conventions.                                                            *)
(*  - A Python str is a sequence of one-character strings; None of a       *)
(*    str-typed column is the string None; an optional dict (match_data)   *)
(*    is a sequence of length 0 or 1.                                      *)
(*  - A float score is an exact fraction [n, d] in lowest terms.           *)
(*  - Every database transaction (the statements up to one commit) is one  *)
(*    atomic step; a worker stage is two steps, because the job is read    *)
(*    and later written around the adapter calls.                          *)
(*  - worker.py calls SpotifyClient(..., on_token_refresh=...) and names   *)
(*    Provider.QOBUZ; the model takes the interface the callers use (the   *)
(*    adapters are external: each call returns a value or raises).         *)
(***************************************************************************)
EXTENDS Integers, Sequences, FiniteSets, TLC

None == "None"

----------------------------------------------------------------------------
(* Arithmetic on exact fractions                                           *)

RECURSIVE GCD(_, _)
GCD(a, b) == IF b = 0 THEN a ELSE GCD(b, a % b)

Rat(n, d) == LET g == GCD(n, d) IN [n |-> n \div g, d |-> d \div g]

RatAdd(x, y) == Rat(x.n * y.d + y.n * x.d, x.d * y.d)
RatMul(x, y) == Rat(x.n * y.n, x.d * y.d)
RatGT(x, y) == x.n * y.d > y.n * x.d
RatGE(x, y) == x.n * y.d >= y.n * x.d

Zero == [n |-> 0, d |-> 1]
One == [n |-> 1, d |-> 1]

----------------------------------------------------------------------------
(* Characters and strings                                                  *)

UpperCase == <<"A","B","C","D","E","F","G","H","I","J","K","L","M",
               "N","O","P","Q","R","S","T","U","V","W","X","Y","Z">>
LowerCase == <<"a","b","c","d","e","f","g","h","i","j","k","l","m",
               "n","o","p","q","r","s","t","u","v","w","x","y","z">>
Digits == {"0","1","2","3","4","5","6","7","8","9"}

Range(s) == {s[i] : i \in 1..Len(s)}

\* str.lower() on one character
LowerChar(c) ==
    IF c \in Range(UpperCase)
    THEN LowerCase[CHOOSE i \in 1..26 : UpperCase[i] = c]
    ELSE c

Lower(s) == [i \in 1..Len(s) |-> LowerChar(s[i])]

\* regex classes \s and \w
IsSpace(c) == c \in {" ", "\t", "\n"}
IsWord(c) == c \in Range(LowerCase) \cup Range(UpperCase) \cup Digits \cup {"_"}

\* s[i:] and s[:i] with 1-based i
From(s, i) == SubSeq(s, i, Len(s))
Upto(s, i) == SubSeq(s, 1, i)

\* p is a prefix of s taken from position i
StartsAt(s, i, p) == i + Len(p) - 1 <= Len(s) /\ SubSeq(s, i, i + Len(p) - 1) = p

\* Python's  p in s
Contains(s, p) == \E i \in 1..(Len(s) + 1) : StartsAt(s, i, p)

Filter(s, Keep(_)) == SelectSeq(s, Keep)

\* re.sub(r"\s+", " ", s).strip()
RECURSIVE CollapseFrom(_, _, _)
CollapseFrom(s, i, acc) ==
    IF i > Len(s) THEN acc
    ELSE IF IsSpace(s[i])
         THEN IF acc = <<>> \/ acc[Len(acc)] = " "
              THEN CollapseFrom(s, i + 1, acc)
              ELSE CollapseFrom(s, i + 1, Append(acc, " "))
         ELSE CollapseFrom(s, i + 1, Append(acc, s[i]))

CollapseStrip(s) ==
    LET c == CollapseFrom(s, 1, <<>>)
    IN IF c # <<>> /\ c[Len(c)] = " " THEN Upto(c, Len(c) - 1) ELSE c

FeatOpen == <<"(","f","e","a","t",".">>
Remastered == <<"r","e","m","a","s","t","e","r","e","d">>

\* index of the first position >= i holding character c on the same line, or 0
RECURSIVE FindOnLine(_, _, _)
FindOnLine(s, i, c) ==
    IF i > Len(s) \/ s[i] = "\n" THEN 0
    ELSE IF s[i] = c THEN i ELSE FindOnLine(s, i + 1, c)

\* re.sub(r"\(feat\..*?\)", "", s): lazy, so up to the first ")" on the line
RECURSIVE StripFeatLazy(_, _, _)
StripFeatLazy(s, i, acc) ==
    IF i > Len(s) THEN acc
    ELSE LET close == IF StartsAt(s, i, FeatOpen)
                      THEN FindOnLine(s, i + Len(FeatOpen), ")") ELSE 0
         IN IF close > 0
            THEN StripFeatLazy(s, close + 1, acc)
            ELSE StripFeatLazy(s, i + 1, Append(acc, s[i]))

RECURSIVE SkipSpaces(_, _)
SkipSpaces(s, i) == IF i <= Len(s) /\ IsSpace(s[i]) THEN SkipSpaces(s, i + 1) ELSE i

\* end of the line that holds position i: index of the next "\n", or Len(s)+1
RECURSIVE LineEnd(_, _)
LineEnd(s, i) == IF i > Len(s) \/ s[i] = "\n" THEN i ELSE LineEnd(s, i + 1)

\* re.sub(r"-\s*remastered.*", "", s): "." stops at a newline
RECURSIVE StripRemastered(_, _, _)
StripRemastered(s, i, acc) ==
    IF i > Len(s) THEN acc
    ELSE LET j == SkipSpaces(s, i + 1)
         IN IF s[i] = "-" /\ StartsAt(s, j, Remastered)
            THEN StripRemastered(s, LineEnd(s, j), acc)
            ELSE StripRemastered(s, i + 1, Append(acc, s[i]))

KeepWordOrSpace(c) == IsWord(c) \/ IsSpace(c)

\* matcher.normalize_string
normalize_string(s) ==
    IF s = <<>> THEN <<>>
    ELSE LET s1 == Lower(s)
             s2 == StripFeatLazy(s1, 1, <<>>)
             s3 == StripRemastered(s2, 1, <<>>)
             s4 == Filter(s3, KeepWordOrSpace)
         IN CollapseStrip(s4)

----------------------------------------------------------------------------
(* difflib.SequenceMatcher(None, a, b).ratio()                             *)

Min(x, y) == IF x < y THEN x ELSE y

\* length of the longest common prefix of a[i..] and b[j..]
RECURSIVE CommonRun(_, _, _, _)
CommonRun(a, i, b, j) ==
    IF i > Len(a) \/ j > Len(b) \/ a[i] # b[j] THEN 0
    ELSE 1 + CommonRun(a, i + 1, b, j + 1)

\* find_longest_match: longest block, earliest in a, then earliest in b
LongestMatch(a, b) ==
    LET runs == {<<i, j, CommonRun(a, i, b, j)>> : i \in 1..Len(a), j \in 1..Len(b)}
        best == CHOOSE r \in runs :
                  \A q \in runs :
                     \/ r[3] > q[3]
                     \/ r[3] = q[3] /\ r[1] < q[1]
                     \/ r[3] = q[3] /\ r[1] = q[1] /\ r[2] <= q[2]
    IN best

\* total size of get_matching_blocks(): the longest block m, then the
\* pieces to its left and to its right
RECURSIVE MatchedChars(_, _)
RECURSIVE MatchedAround(_, _, _)
MatchedAround(a, b, m) ==
    IF m[3] = 0 THEN 0
    ELSE m[3]
         + MatchedChars(Upto(a, m[1] - 1), Upto(b, m[2] - 1))
         + MatchedChars(From(a, m[1] + m[3]), From(b, m[2] + m[3]))

MatchedChars(a, b) ==
    IF a = <<>> \/ b = <<>> THEN 0 ELSE MatchedAround(a, b, LongestMatch(a, b))

ratio(a, b) ==
    IF Len(a) + Len(b) = 0 THEN One
    ELSE Rat(2 * MatchedChars(a, b), Len(a) + Len(b))

----------------------------------------------------------------------------
(* matcher.py                                                              *)

MATCHED == "matched"
UNCERTAIN == "uncertain"
NOT_FOUND == "not_found"
SKIPPED == "skipped"
ItemStatus == {MATCHED, UNCERTAIN, NOT_FOUND, SKIPPED}

Half == [n |-> 1, d |-> 2]
TitleWeight == [n |-> 50, d |-> 100]
ArtistWeight == [n |-> 35, d |-> 100]
DurationWeight == [n |-> 15, d |-> 100]
MatchedAbove == [n |-> 90, d |-> 100]
UncertainFrom == [n |-> 75, d |-> 100]
DurationExact == 5000
DurationNear == 15000

Abs(x) == IF x < 0 THEN -x ELSE x

RatMax(S) == CHOOSE x \in S : \A y \in S : RatGE(x, y)

title_score(source, target) ==
    ratio(normalize_string(source.name), normalize_string(target.title))

artist_score(source, target) ==
    IF source.artists # <<>> /\ target.artists # <<>>
    THEN RatMax({ratio(normalize_string(source.artists[i]),
                       normalize_string(target.artists[j])) :
                    i \in 1..Len(source.artists), j \in 1..Len(target.artists)})
    ELSE Zero

duration_score(source, target) ==
    LET src_dur == source.duration_ms
        tgt_dur == target.duration * 1000
        diff == Abs(src_dur - tgt_dur)
    IN IF src_dur # 0 /\ tgt_dur # 0
       THEN IF diff > DurationNear THEN Zero
            ELSE IF diff > DurationExact THEN Half
            ELSE One
       ELSE One

\* calculate_score comparing the ISRCs after the weighted sum is known to be high
calculate_score_isrc_last(source, target) ==
    LET sum == RatAdd(RatAdd(RatMul(title_score(source, target), TitleWeight),
                             RatMul(artist_score(source, target), ArtistWeight)),
                      RatMul(duration_score(source, target), DurationWeight))
    IN IF RatGE(sum, UncertainFrom) /\ source.isrc # <<>> /\ source.isrc = target.isrc
       THEN One ELSE sum

calculate_score(source, target) ==
    IF source.isrc # <<>> /\ target.isrc # <<>> /\ source.isrc = target.isrc
    THEN One
    ELSE RatAdd(RatAdd(RatMul(title_score(source, target), TitleWeight),
                       RatMul(artist_score(source, target), ArtistWeight)),
                RatMul(duration_score(source, target), DurationWeight))

\* cand["_score"] = score
Scored(cand, score) ==
    [id |-> cand.id, title |-> cand.title, artists |-> cand.artists,
     duration |-> cand.duration, isrc |-> cand.isrc, score |-> score]

\* one turn of the loop of match_track: best is <<best_match, best_score>>
Better(cand, score, best) ==
    IF RatGT(score, best[2]) THEN <<(<<Scored(cand, score)>>), score>> ELSE best

RECURSIVE BestOf(_, _, _, _)
BestOf(source_track, candidates, k, best) ==
    IF k > Len(candidates) THEN best
    ELSE BestOf(source_track, candidates, k + 1,
                Better(candidates[k], calculate_score(source_track, candidates[k]), best))

\* the thresholds of match_track with MATCHED from 0.90 on
ClassifiedFromNinety(best) ==
    IF RatGE(best[2], MatchedAbove) THEN <<best[1], MATCHED>>
    ELSE IF RatGE(best[2], UncertainFrom) THEN <<best[1], UNCERTAIN>>
    ELSE <<(<<>>), NOT_FOUND>>

\* the thresholds of match_track
Classified(best) ==
    IF RatGT(best[2], MatchedAbove) THEN <<best[1], MATCHED>>
    ELSE IF RatGE(best[2], UncertainFrom) THEN <<best[1], UNCERTAIN>>
    ELSE <<(<<>>), NOT_FOUND>>

\* returns <<match, status>>; match is <<>> for None
match_track(source_track, candidates) ==
    IF candidates = <<>> THEN <<(<<>>), NOT_FOUND>>
    ELSE Classified(BestOf(source_track, candidates, 1, <<(<<>>), Zero>>))

----------------------------------------------------------------------------
(* ytm.py: the searcher's normalizer and heuristic, the resilient writer   *)

\* re.sub(r"\(feat\.[^)]+\)", "", s): at least one character before ")"
RECURSIVE FindChar(_, _, _)
FindChar(s, i, c) ==
    IF i > Len(s) THEN 0
    ELSE IF s[i] = c THEN i ELSE FindChar(s, i + 1, c)

RECURSIVE StripFeat(_, _, _)
StripFeat(s, i, acc) ==
    IF i > Len(s) THEN acc
    ELSE LET close == IF StartsAt(s, i, FeatOpen)
                      THEN FindChar(s, i + Len(FeatOpen), ")") ELSE 0
         IN IF close > i + Len(FeatOpen)
            THEN StripFeat(s, close + 1, acc)
            ELSE StripFeat(s, i + 1, Append(acc, s[i]))

\* re.sub(r"\[.*?\]", "", s)
RECURSIVE StripBrackets(_, _, _)
StripBrackets(s, i, acc) ==
    IF i > Len(s) THEN acc
    ELSE LET close == IF s[i] = "[" THEN FindOnLine(s, i + 1, "]") ELSE 0
         IN IF close > 0
            THEN StripBrackets(s, close + 1, acc)
            ELSE StripBrackets(s, i + 1, Append(acc, s[i]))

\* re.sub(r"[^a-z0-9\s\-:&]", " ", s)
KeptByYtm(c) == c \in Range(LowerCase) \cup Digits \cup {"-", ":", "&"} \/ IsSpace(c)
BlankOthers(s) == [i \in 1..Len(s) |-> IF KeptByYtm(s[i]) THEN s[i] ELSE " "]

_normalize(s) ==
    CollapseStrip(BlankOthers(StripBrackets(StripFeat(Lower(s), 1, <<>>), 1, <<>>)))

\* " ".join(names)
RECURSIVE Join(_)
Join(names) ==
    IF names = <<>> THEN <<>>
    ELSE IF Len(names) = 1 THEN names[1]
    ELSE names[1] \o <<" ">> \o Join(Tail(names))

\* what one ytmusic / client search call did: raise, or return candidates
SearchError == [raised |-> TRUE, candidates |-> <<>>]
Found(candidates) == [raised |-> FALSE, candidates |-> candidates]
SearchInspected == 7

\* the containment test without the artists
PassesOnTitleAlone(q_title, q_artist, title, artists_str) == Contains(title, q_title)

\* the containment test of the heuristic
Passes(q_title, q_artist, title, artists_str) ==
    /\ Contains(title, q_title)
    /\ (Contains(artists_str, q_artist) \/ Contains(q_artist, artists_str))

\* the first inspected candidate passing the containment test, as an index, or 0
RECURSIVE FirstPassing(_, _, _, _)
FirstPassing(q_title, q_artist, candidates, k) ==
    IF k > Len(candidates) \/ k > SearchInspected THEN 0
    ELSE IF Passes(q_title, q_artist, _normalize(candidates[k].title),
                   Lower(Join(candidates[k].artists)))
         THEN k
         ELSE FirstPassing(q_title, q_artist, candidates, k + 1)

\* the candidate at index k, else the first one, else None
Picked(candidates, k) ==
    IF k > 0 THEN candidates[k].id
    ELSE IF candidates # <<>> THEN candidates[1].id
    ELSE None

_search_track_exactish(track, outcome) ==
    IF outcome.raised THEN None
    ELSE Picked(outcome.candidates,
                FirstPassing(_normalize(track.name),
                             _normalize(IF track.artists # <<>> THEN track.artists[1]
                                        ELSE <<>>),
                             outcome.candidates, 1))

Truthy(v) == v # None /\ v # ""

\* sep.join(names)
RECURSIVE JoinWith(_, _)
JoinWith(names, sep) ==
    IF names = <<>> THEN <<>>
    ELSE IF Len(names) = 1 THEN names[1]
    ELSE names[1] \o sep \o JoinWith(Tail(names), sep)

\* _fmt_label of a flattened Spotify track: "artist - title", or
\* "artist - album - title" when the track names its album
Dash == <<" ", "-", " ">>
t_label(t) ==
    IF t.album = <<>>
    THEN JoinWith(t.artists, <<",", " ">>) \o Dash \o t.name
    ELSE JoinWith(t.artists, <<",", " ">>) \o Dash \o t.album \o Dash \o t.name

\* the futures complete in any order: a permutation of the task indices
CompletionOrders(n) ==
    {order \in [1..n -> 1..n] : \A i, j \in 1..n : order[i] = order[j] => i = j}

\* the loop over as_completed storing each result at the position at which the
\* future completed, not at the index of its task
RECURSIVE CompletedInArrivalOrder(_, _, _, _, _)
CompletedInArrivalOrder(tracks, outcomes, order, k, acc) ==
    IF k > Len(order) THEN acc
    ELSE LET vid == _search_track_exactish(tracks[order[k]], outcomes[order[k]])
         IN CompletedInArrivalOrder(tracks, outcomes, order, k + 1,
                IF Truthy(vid)
                THEN [acc EXCEPT !.video_ids[k] = vid]
                ELSE [acc EXCEPT !.missed.count = @ + 1,
                                 !.missed.tracks = Append(@, t_label(tracks[order[k]]))])

\* `for fut in as_completed(futures)`: the k-th future to complete is the task
\* of index order[k]; its result is stored at that index, a miss is appended
RECURSIVE Completed(_, _, _, _, _)
Completed(tracks, outcomes, order, k, acc) ==
    IF k > Len(order) THEN acc
    ELSE LET i == order[k]
             vid == _search_track_exactish(tracks[i], outcomes[i])
         IN Completed(tracks, outcomes, order, k + 1,
                IF Truthy(vid)
                THEN [acc EXCEPT !.video_ids[i] = vid]
                ELSE [acc EXCEPT !.missed.count = @ + 1,
                                 !.missed.tracks = Append(@, t_label(tracks[i]))])

\* raise when tracks were asked for and not one video id was found
Searched(tracks, acc) ==
    [raised |-> SelectSeq(acc.video_ids, Truthy) = <<>> /\ tracks # <<>>,
     video_ids |-> acc.video_ids, missed |-> acc.missed]

\* video_ids is aligned with tracks
get_video_ids(tracks, outcomes, order) ==
    Searched(tracks,
             Completed(tracks, outcomes, order, 1,
                       [video_ids |-> [i \in 1..Len(tracks) |-> None],
                        missed |-> [count |-> 0, tracks |-> <<>>]]))

YTM_BATCH_SIZE == 60

\* what one ytmusic.add_playlist_items call did: it returned success, it
\* returned a status other than STATUS_SUCCEEDED, it raised YTMusicServerError
\* (with or without 409), or it raised another Exception
AddResults == {"ok", "non_success", "conflict", "exception"}

\* the result of the call numbered k; calls past the end of results succeed
ResultOf(results, k) == IF k \in DOMAIN results THEN results[k] ELSE "ok"

\* add_playlist_items(playlist_id, filtered, duplicates=False): the service adds
\* nothing and answers 409 when one of the ids is in the playlist already
Answer(filtered, st, results) ==
    IF \E i \in 1..Len(filtered) : filtered[i] \in st.present THEN "conflict"
    ELSE ResultOf(results, st.n + 1)

\* one add_playlist_items call: the ids it carried and how it ended
Sent(filtered, st, results) == [ids |-> filtered, answer |-> Answer(filtered, st, results)]

\* _existing_video_ids: the ids in the playlist, or set() when the fetch raised
_existing_video_ids(tracks, fetch_ok) == IF fetch_ok THEN Range(tracks) ELSE {}

RECURSIVE add_chunk(_, _, _)

\* add_chunk retrying only the first half of a chunk that was refused
add_chunk_left_half(chunk, st, results) ==
    LET filtered == SelectSeq(chunk, LAMBDA v : Truthy(v) /\ v \notin st.existing)
        k == st.n + 1
        mid == Len(filtered) \div 2
    IN IF st.raised \/ filtered = <<>> THEN st
       ELSE IF Answer(filtered, st, results) = "ok"
            THEN [st EXCEPT !.existing = @ \cup Range(filtered),
                            !.present = @ \cup Range(filtered),
                            !.calls = Append(@, filtered), !.n = k]
       ELSE IF Len(filtered) = 1
            THEN [st EXCEPT !.failed = @ \o filtered, !.n = k]
       ELSE add_chunk(Upto(filtered, mid), [st EXCEPT !.n = k], results)

\* add_chunk without the `except Exception` clause: such an error leaves the writer
add_chunk_unguarded(chunk, st, results) ==
    LET filtered == SelectSeq(chunk, LAMBDA v : Truthy(v) /\ v \notin st.existing)
        k == st.n + 1
        mid == Len(filtered) \div 2
    IN IF st.raised \/ filtered = <<>> THEN st
       ELSE IF Answer(filtered, st, results) = "ok"
            THEN [st EXCEPT !.existing = @ \cup Range(filtered),
                            !.present = @ \cup Range(filtered),
                            !.calls = Append(@, filtered), !.n = k]
       ELSE IF Answer(filtered, st, results) = "exception"
            THEN [st EXCEPT !.raised = TRUE, !.n = k]
       ELSE IF Len(filtered) = 1
            THEN [st EXCEPT !.failed = @ \o filtered, !.n = k]
       ELSE add_chunk(From(filtered, mid + 1),
                      add_chunk(Upto(filtered, mid), [st EXCEPT !.n = k], results),
                      results)

\* add_chunk giving up on a refused batch of two ids without trying each alone
add_chunk_no_split_of_pairs(chunk, st, results) ==
    LET filtered == SelectSeq(chunk, LAMBDA v : Truthy(v) /\ v \notin st.existing)
        k == st.n + 1
        mid == Len(filtered) \div 2
    IN IF st.raised \/ filtered = <<>> THEN st
       ELSE IF Answer(filtered, st, results) = "ok"
            THEN [st EXCEPT !.existing = @ \cup Range(filtered),
                            !.present = @ \cup Range(filtered),
                            !.calls = Append(@, filtered), !.n = k,
                            !.sent = Append(@, Sent(filtered, st, results))]
       ELSE IF Len(filtered) <= 2
            THEN [st EXCEPT !.failed = @ \o filtered, !.n = k,
                            !.sent = Append(@, Sent(filtered, st, results))]
       ELSE add_chunk(From(filtered, mid + 1),
                      add_chunk(Upto(filtered, mid),
                                [st EXCEPT !.n = k,
                                           !.sent = Append(@, Sent(filtered, st, results))],
                                results),
                      results)

\* add_chunk sending an id that was refused alone once more before giving it up
add_chunk_single_retried(chunk, st, results) ==
    LET filtered == SelectSeq(chunk, LAMBDA v : Truthy(v) /\ v \notin st.existing)
        k == st.n + 1
        mid == Len(filtered) \div 2
    IN IF st.raised \/ filtered = <<>> THEN st
       ELSE IF Answer(filtered, st, results) = "ok"
            THEN [st EXCEPT !.existing = @ \cup Range(filtered),
                            !.present = @ \cup Range(filtered),
                            !.calls = Append(@, filtered), !.n = k,
                            !.sent = Append(@, Sent(filtered, st, results))]
       ELSE IF Len(filtered) = 1
            THEN [st EXCEPT !.failed = @ \o filtered, !.n = k + 1,
                            !.sent = @ \o <<Sent(filtered, st, results),
                                            Sent(filtered, st, results)>>]
       ELSE add_chunk(From(filtered, mid + 1),
                      add_chunk(Upto(filtered, mid),
                                [st EXCEPT !.n = k,
                                           !.sent = Append(@, Sent(filtered, st, results))],
                                results),
                      results)

\* add_chunk; st is [existing, failed, present, calls, sent, n, raised] (sent
\* lists every add_playlist_items call made): present is
\* what the playlist holds, n counts the add_playlist_items calls made so far,
\* calls lists the ids of each call that succeeded, raised says that an
\* exception left the writer. Every result other than success is logged and
\* falls through to the split.
add_chunk(chunk, st, results) ==
    LET filtered == SelectSeq(chunk, LAMBDA v : Truthy(v) /\ v \notin st.existing)
        k == st.n + 1
        mid == Len(filtered) \div 2
    IN IF st.raised \/ filtered = <<>> THEN st
       ELSE IF Answer(filtered, st, results) = "ok"
            THEN [st EXCEPT !.existing = @ \cup Range(filtered),
                            !.present = @ \cup Range(filtered),
                            !.calls = Append(@, filtered), !.n = k,
                            !.sent = Append(@, Sent(filtered, st, results))]
       ELSE IF Len(filtered) = 1
            THEN [st EXCEPT !.failed = @ \o filtered, !.n = k,
                            !.sent = Append(@, Sent(filtered, st, results))]
       ELSE add_chunk(From(filtered, mid + 1),
                      add_chunk(Upto(filtered, mid),
                                [st EXCEPT !.n = k,
                                           !.sent = Append(@, Sent(filtered, st, results))],
                                results),
                      results)

RECURSIVE AddChunksFrom(_, _, _, _)
AddChunksFrom(video_ids, start, st, results) ==
    IF start > Len(video_ids) THEN st
    ELSE AddChunksFrom(video_ids, start + YTM_BATCH_SIZE,
                       add_chunk(SubSeq(video_ids, start,
                                        Min(start + YTM_BATCH_SIZE - 1, Len(video_ids))),
                                 st, results),
                       results)

\* tracks is what the playlist holds when the writer starts
_add_tracks_resilient(tracks, fetch_ok, video_ids, results) ==
    AddChunksFrom(video_ids, 1,
                  [existing |-> _existing_video_ids(tracks, fetch_ok), failed |-> <<>>,
                   present |-> Range(tracks), calls |-> <<>>, sent |-> <<>>, n |-> 0,
                   raised |-> FALSE],
                  results)

----------------------------------------------------------------------------
(* tidal.py / qobuz.py: add_tracks                                          *)

ADD_TRACKS_CHUNK == 50

\* the requests add_tracks sends: consecutive slices of at most 50 ids
RECURSIVE ChunksFrom(_, _)
ChunksFrom(track_ids, start) ==
    IF start > Len(track_ids) THEN <<>>
    ELSE <<SubSeq(track_ids, start, Min(start + ADD_TRACKS_CHUNK - 1, Len(track_ids)))>>
         \o ChunksFrom(track_ids, start + ADD_TRACKS_CHUNK)

RECURSIVE Concat(_)
Concat(ss) == IF ss = <<>> THEN <<>> ELSE ss[1] \o Concat(Tail(ss))

\* the slices without the last, shorter one
BatchesWithoutTail(track_ids) ==
    ChunksFrom(Upto(track_ids, (Len(track_ids) \div ADD_TRACKS_CHUNK) * ADD_TRACKS_CHUNK), 1)

\* for i in range(0, len(track_ids), 50): track_ids[i:i + 50]
Batches(track_ids) == ChunksFrom(track_ids, 1)

\* fail_at = 0: every request succeeds; fail_at = k: request k raises
add_tracks(track_ids, fail_at) ==
    LET chunks == Batches(track_ids)
    IN IF fail_at = 0 \/ fail_at > Len(chunks)
       THEN [raised |-> FALSE, added |-> Concat(chunks)]
       ELSE [raised |-> TRUE, added |-> Concat(Upto(chunks, fail_at - 1))]

----------------------------------------------------------------------------
(* models.py                                                               *)

SPOTIFY == "spotify"
TIDAL == "tidal"
YTM == "ytm"
QOBUZ == "qobuz"
\* the members models.py declares
DeclaredProvider == {SPOTIFY, TIDAL, YTM}
\* worker.py and routers/auth_routes.py also name Provider.QOBUZ
Provider == DeclaredProvider \cup {QOBUZ}

QUEUED == "queued"
RUNNING == "running"
WAITING_REVIEW == "waiting_review"
IMPORTING == "importing"
DONE == "done"
FAILED == "failed"
JobStatus == {QUEUED, RUNNING, WAITING_REVIEW, IMPORTING, DONE, FAILED}

----------------------------------------------------------------------------
(* Bounds of the model and the catalogs the adapters answer from           *)

MaxJobs == 1
MaxConnections == 2
MaxRedeliveries == 1
MaxReviews == 1
MaxFinalizes == 1
MaxWorkers == 1

\* user 1 connects providers and imports; user 2 is another tenant
Users == {1, 2}
Owners == {1}
Workers == 1..MaxWorkers

sHello == <<"H","e","l","l","o">>
sHallo == <<"H","a","l","l","o">>
sHelloLive == <<"H","e","l","l","o"," ","L","i","v","e">>
sAdele == <<"A","d","e","l","e">>
sSong == <<"S","o","n","g">>
sAny == <<"a","n","y">>
sA == <<"A">>
sB == <<"B">>
sIsrc == <<"U","S","1">>
sAlbum == <<"2","5">>

TrackHello == [id |-> "s1", name |-> sHello, artists |-> <<sAdele>>, album |-> sAlbum,
               duration_ms |-> 300000, isrc |-> <<>>]
TrackSong == [id |-> "s2", name |-> sSong, artists |-> <<sA>>, album |-> <<>>,
              duration_ms |-> 180000, isrc |-> sIsrc]

CandHello == [id |-> "k1", title |-> sHello, artists |-> <<sAdele>>,
              duration |-> 300, isrc |-> <<>>]
CandHelloLive == [id |-> "k2", title |-> sHelloLive, artists |-> <<sAdele>>,
                  duration |-> 320, isrc |-> <<>>]
CandHallo == [id |-> "k3", title |-> sHallo, artists |-> <<sAdele>>,
              duration |-> 300, isrc |-> <<>>]
CandIsrc == [id |-> "k4", title |-> sAny, artists |-> <<sB>>,
             duration |-> 120, isrc |-> sIsrc]

\* what the searches of one match stage can do, one outcome per source track
SearchScenarios ==
    {<<Found(<<CandHello>>), Found(<<CandIsrc>>)>>,
     <<Found(<<CandHelloLive, CandHallo>>), Found(<<>>)>>,
     <<Found(<<CandHello>>), SearchError>>,
     <<Found(<<>>), Found(<<>>)>>,
     <<Found(<<CandHello>>), Found(<<CandHello>>)>>}

\* the Spotify playlists the source adapter can enumerate
PlaylistIds == {"pl1"}
PlaylistTracks(pid) == IF pid = "pl1" THEN <<TrackHello, TrackSong>> ELSE <<>>

\* match_track and get_video_ids over the catalog, evaluated once
MatchTable ==
    [track \in UNION {Range(PlaylistTracks(pid)) : pid \in PlaylistIds} |->
        [candidates \in {sc[k].candidates : sc \in SearchScenarios, k \in 1..2} |->
            match_track(track, candidates)]]

VideoIdsTable ==
    [tracks \in {PlaylistTracks(pid) : pid \in PlaylistIds} |->
        [outcomes \in SearchScenarios |->
            [order \in CompletionOrders(Len(tracks)) |->
                get_video_ids(tracks, outcomes, order)]]]

\* the comma separated playlist_ids form field, split
PlaylistIdLists == {<<"pl1">>, <<"", "pl1">>}

\* credential blobs: "tokens" holds every token of its provider
Credentials == {"tokens"}

----------------------------------------------------------------------------
(* ytm.py: _TokenBucket. Time is counted in ticks of 1 / rate seconds, so   *)
(* that elapsed * rate is a number of ticks and the token count is whole   *)

YTM_QPS == 5

Max(a, b) == IF a > b THEN a ELSE b

\* self.rate = max(rate_per_sec, 0.1)
BucketRate == Max(YTM_QPS, 0)

\* self.capacity = int(max(self.rate * 2, 1))
BucketCapacity == Max(BucketRate * 2, 1)

MaxThreads == 2
MaxClock == 2
MaxGranted == 3

\* the tasks of the ThreadPoolExecutor of get_video_ids
Threads == 1..MaxThreads

\* a thread that is not inside acquire()
Outside == [pc |-> "outside", now |-> 0, read |-> 0]

\* _TokenBucket(YTM_QPS): a full bucket; clock is time.monotonic(), granted
\* counts the acquire() calls that returned, start is the tokens at the start
Bucket(tokens) ==
    [tokens |-> tokens, last |-> 0, clock |-> 0, granted |-> 0, start |-> tokens,
     threads |-> [t \in Threads |-> Outside]]

NewBucket == Bucket(BucketCapacity)

----------------------------------------------------------------------------
(* State                                                                   *)

VARIABLES
    connections,  \* table Connection: set of rows
    jobs,         \* table ImportJob: sequence of rows, id = index
    items,        \* table ImportItem: sequence of rows, id = index
    queue,        \* the RQ queue: sequence of [func, job_id]
    redeliveries, \* number of messages handed out again so far
    workers,      \* per worker: the stage it is in the middle of
    playlists,    \* the target catalogs: sequence of [provider, tracks]
    requests,     \* number of review and of finalize requests made
    last_op,      \* the operation of the last step and how it ended
    response,     \* what the last create_ytm_playlist call returned or raised
    limiter,      \* _rate_limiter and the threads that are inside acquire()
    client,       \* a SpotifyClient and the requests it has sent
    handlers      \* the connect requests being handled: their session and position

\* the state outside the import pipeline
aside == <<limiter, client, handlers>>

vars == <<connections, jobs, items, queue, redeliveries, workers, playlists, requests,
          last_op, response, aside>>

Idle == [pc |-> "idle", job_id |-> 0, loaded |-> None, track_ids |-> <<>>]

Op(op, outcome) == [op |-> op, outcome |-> outcome]

NoOp == Op("init", "")

NoResponse == [error |-> "no call yet"]

\* no SpotifyClient constructed; a token is <<>> (None) or <<n>>, the n-th
\* token the accounts service has issued
NoClient == [access_token |-> <<>>, refresh_token |-> <<>>, client_secret |-> FALSE]

MaxHandlers == 2
Handlers == 1..MaxHandlers
\* a connect request that is not running
NoHandler == [pc |-> "idle", user_id |-> 0, provider |-> "", credentials |-> "", conn |-> {}]

Init ==
    /\ connections = {}
    /\ jobs = <<>>
    /\ items = <<>>
    /\ queue = <<>>
    /\ redeliveries = 0
    /\ workers = [w \in Workers |-> Idle]
    /\ playlists = <<>>
    /\ requests = [review |-> 0, finalize |-> 0]
    /\ last_op = NoOp
    /\ response = NoResponse
    /\ limiter = NewBucket
    /\ client = NoClient
    /\ handlers = [h \in Handlers |-> NoHandler]

\* select(Connection).where(user_id == u, provider == p): the rows found
Connection(u, p) == {c \in connections : c.user_id = u /\ c.provider = p}

\* .first() is not None
Connected(u, p) == Connection(u, p) # {}

HasTokens(u, p) == \E c \in Connection(u, p) : c.credentials = "tokens"

----------------------------------------------------------------------------
(* routers/auth_routes.py: callback, auth_ytm, auth_qobuz                  *)

\* providers are connected before the first import is requested
connect(u, p, creds) ==
    /\ jobs = <<>>
    /\ LET row == [user_id |-> u, provider |-> p, credentials |-> creds]
       IN IF ~Connected(u, p)
          THEN /\ Cardinality(connections) < MaxConnections
               /\ connections' = connections \cup {row}
          ELSE connections' = (connections \ Connection(u, p)) \cup {row}
    /\ last_op' = Op("connect", "ok")
    /\ UNCHANGED <<jobs, items, queue, redeliveries, workers, playlists, requests, response, aside>>

----------------------------------------------------------------------------
(* routers/playlists.py: create_import                                     *)

NewJob(u, pid, target) ==
    [user_id |-> u, source_playlist_id |-> pid, target_provider |-> target,
     status |-> QUEUED, error_message |-> None, target_playlist_id |-> None]

Message(func, job_id) == [func |-> func, job_id |-> job_id]

\* the loop over pids: one job and one enqueued match stage per non-blank pid
RECURSIVE CreateJobs(_, _, _, _)
CreateJobs(u, pids, target, st) ==
    IF pids = <<>> THEN st
    ELSE IF pids[1] = "" THEN CreateJobs(u, Tail(pids), target, st)
    ELSE CreateJobs(u, Tail(pids), target,
             [jobs |-> Append(st.jobs, NewJob(u, pids[1], target)),
              queue |-> Append(st.queue,
                               Message("process_import_job", Len(st.jobs) + 1))])

create_import(u, pids, target_provider) ==
    /\ Len(jobs) + Len(SelectSeq(pids, Truthy)) <= MaxJobs
    /\ IF target_provider \notin Provider
       THEN /\ last_op' = Op("create_import", "400")
            /\ UNCHANGED <<jobs, queue>>
       ELSE IF ~Connected(u, target_provider)
       THEN /\ last_op' = Op("create_import", "not_connected")
            /\ UNCHANGED <<jobs, queue>>
       ELSE LET st == CreateJobs(u, pids, target_provider, [jobs |-> jobs, queue |-> queue])
            IN /\ jobs' = st.jobs
               /\ queue' = st.queue
               /\ last_op' = Op("create_import", "created")
    /\ UNCHANGED <<connections, items, redeliveries, workers, playlists, requests, response, aside>>

----------------------------------------------------------------------------
(* worker.py: process_import_job                                           *)

\* the head of the queue is handed to a worker; under at-least-once delivery
\* it may be handed out again later (ack = FALSE)
Deliver(ack) ==
    IF ack
    THEN /\ queue' = Tail(queue)
         /\ UNCHANGED redeliveries
    ELSE /\ redeliveries < MaxRedeliveries
         /\ queue' = Append(Tail(queue), queue[1])
         /\ redeliveries' = redeliveries + 1

NoScore == [n |-> -1, d |-> 1]

NewItem(job_id, track, match_data, status, selected_match_id) ==
    [job_id |-> job_id, original_track_data |-> track, match_data |-> match_data,
     status |-> status, selected_match_id |-> selected_match_id]

\* the TIDAL and Qobuz loops: search, match_track, session.add(item); a search
\* that raises leaves the items added so far pending in the session
\* ImportItem(..., match_data=match, status=status,
\*            selected_match_id=match["id"] if match else None)
MatchedItem(job_id, track, m) ==
    NewItem(job_id, track, m[1], m[2], IF m[1] # <<>> THEN m[1][1].id ELSE None)

RECURSIVE MatchLoop(_, _, _, _, _)
MatchLoop(job_id, tracks, outcomes, k, acc) ==
    IF k > Len(tracks) THEN [error |-> None, new_items |-> acc]
    ELSE IF outcomes[k].raised
         THEN [error |-> "search failed", new_items |-> acc]
    ELSE MatchLoop(job_id, tracks, outcomes, k + 1,
                   Append(acc, MatchedItem(job_id, tracks[k],
                                           MatchTable[tracks[k]][outcomes[k].candidates])))

\* the YTM branch: one item per zip(tracks, video_ids)
YtmItem(job_id, track, vid) ==
    IF Truthy(vid)
    THEN NewItem(job_id, track,
                 <<[id |-> vid, title |-> track.name, artists |-> <<>>,
                    duration |-> 0, isrc |-> <<>>, score |-> NoScore]>>,
                 MATCHED, vid)
    ELSE NewItem(job_id, track, <<>>, NOT_FOUND, vid)

\* r is what get_video_ids did
YtmItemsOf(job_id, tracks, r) ==
    IF r.raised
    THEN [error |-> "Not a single track could be found on YouTube Music. Are your authentication headers correct and valid?",
          new_items |-> <<>>]
    ELSE [error |-> None,
          new_items |-> [i \in 1..Len(tracks) |-> YtmItem(job_id, tracks[i], r.video_ids[i])]]

YtmItems(job_id, tracks, outcomes, order) ==
    YtmItemsOf(job_id, tracks, VideoIdsTable[tracks][outcomes][order])

Raise(msg) == [error |-> msg, new_items |-> <<>>]

\* a client built without an access token has every search rejected
Authorized(u, p, outcomes) ==
    IF HasTokens(u, p) THEN outcomes ELSE [i \in DOMAIN outcomes |-> SearchError]

\* sp_client.get_playlist_tracks(job.source_playlist_id)
SourceOf(job_id) == PlaylistTracks(jobs[job_id].source_playlist_id)

\* steps 1 and 2 of process_import_job: the error raised (or None) and the
\* items added to the session
MatchStage(job_id, spotify_ok, setup_ok, outcomes, order) ==
    LET job == jobs[job_id]
        u == job.user_id
        tracks == PlaylistTracks(job.source_playlist_id)
    IN IF ~Connected(u, SPOTIFY)
       THEN Raise("Spotify connection not found for user.")
       ELSE IF ~HasTokens(u, SPOTIFY)
       THEN Raise("Spotify credentials are missing access and refresh tokens.")
       ELSE IF ~spotify_ok THEN Raise("Spotify API error")
       ELSE IF job.target_provider = TIDAL
       THEN IF ~Connected(u, TIDAL) THEN Raise("Tidal connection not found")
            ELSE MatchLoop(job_id, tracks, Authorized(u, TIDAL, outcomes), 1, <<>>)
       ELSE IF job.target_provider = QOBUZ
       THEN IF ~Connected(u, QOBUZ) THEN Raise("Qobuz connection not found")
            ELSE IF ~HasTokens(u, QOBUZ) THEN Raise("Qobuz credentials missing")
            ELSE MatchLoop(job_id, tracks, outcomes, 1, <<>>)
       ELSE IF job.target_provider = YTM
       THEN IF ~Connected(u, YTM) THEN Raise("YTM connection not found")
            ELSE IF ~setup_ok \/ ~HasTokens(u, YTM) THEN Raise("YTM setup failed")
            ELSE YtmItems(job_id, tracks, outcomes, order)
       ELSE [error |-> None, new_items |-> <<>>]

\* session.get, status = RUNNING, commit
process_import_job_start(w) ==
    /\ workers[w].pc = "idle"
    /\ queue # <<>>
    /\ queue[1].func = "process_import_job"
    /\ \E ack \in BOOLEAN : Deliver(ack)
    /\ LET job_id == queue[1].job_id
       IN IF job_id \notin 1..Len(jobs)
          THEN /\ last_op' = Op("process_import_job", "not_found")
               /\ UNCHANGED <<jobs, workers>>
          ELSE /\ jobs' = [jobs EXCEPT ![job_id].status = RUNNING]
               /\ workers' = [workers EXCEPT ![w] =
                                 [pc |-> "match", job_id |-> job_id,
                                  loaded |-> jobs'[job_id], track_ids |-> <<>>]]
               /\ last_op' = Op("process_import_job", "running")
    /\ UNCHANGED <<connections, items, playlists, requests, response, aside>>

\* the column is written unless the value assigned equals the value the
\* session loaded (the unit of work emits no UPDATE for an unchanged attribute)
Assign(current, loaded, value) == IF value = loaded THEN current ELSE value

\* commit WAITING_REVIEW, or the except branch: commit FAILED and the error
\* message; either commit also flushes the items added to the session
CommitMatch(job_id, loaded, r) ==
    /\ items' = items \o r.new_items
    /\ IF r.error = None
       THEN jobs' = [jobs EXCEPT ![job_id].status =
                        Assign(@, loaded.status, WAITING_REVIEW)]
       ELSE jobs' = [jobs EXCEPT
                        ![job_id].status = Assign(@, loaded.status, FAILED),
                        ![job_id].error_message =
                            Assign(@, loaded.error_message, r.error)]
    /\ last_op' = Op("process_import_job_finish",
                     IF r.error = None THEN "ok" ELSE "failed")

\* fetch tracks, match, then commit
process_import_job_finish(w) ==
    /\ workers[w].pc = "match"
    /\ \E spotify_ok \in BOOLEAN, setup_ok \in BOOLEAN, outcomes \in SearchScenarios,
          order \in CompletionOrders(Len(SourceOf(workers[w].job_id))) :
          CommitMatch(workers[w].job_id, workers[w].loaded,
                      MatchStage(workers[w].job_id, spotify_ok, setup_ok, outcomes, order))
    /\ workers' = [workers EXCEPT ![w] = Idle]
    /\ UNCHANGED <<connections, queue, redeliveries, playlists, requests, response, aside>>

----------------------------------------------------------------------------
(* worker.py: finalize_import_job                                          *)

\* select(ImportItem).where(job_id == job.id, status == MATCHED), by id
RECURSIVE MatchedItemsFrom(_, _)
MatchedItemsFrom(job_id, k) ==
    IF k > Len(items) THEN <<>>
    ELSE IF items[k].job_id = job_id /\ items[k].status = MATCHED
         THEN <<items[k]>> \o MatchedItemsFrom(job_id, k + 1)
         ELSE MatchedItemsFrom(job_id, k + 1)

\* TrackIds gathering every item of the job, whatever its status
AnySelectedIds(job_id) ==
    LET mine == SelectSeq(items, LAMBDA it : it.job_id = job_id)
        ids == [i \in 1..Len(mine) |-> mine[i].selected_match_id]
    IN SelectSeq(ids, Truthy)

\* [i.selected_match_id for i in items if i.selected_match_id]
TrackIds(job_id) ==
    LET matched == MatchedItemsFrom(job_id, 1)
        ids == [i \in 1..Len(matched) |-> matched[i].selected_match_id]
    IN SelectSeq(ids, Truthy)

NewPlaylist(provider, tracks) == [provider |-> provider, tracks |-> tracks]

Fail(msg, created) == [error |-> msg, created |-> created, target_playlist_id |-> None]

\* create_playlist then add_tracks of the TIDAL and Qobuz clients
CreateAndAdd(provider, track_ids, create_ok, fail_at) ==
    LET r == add_tracks(track_ids, fail_at)
    IN IF ~create_ok THEN Fail("create_playlist failed", <<>>)
       ELSE IF r.raised THEN Fail("add_tracks failed", <<NewPlaylist(provider, r.added)>>)
       ELSE [error |-> None, created |-> <<NewPlaylist(provider, r.added)>>,
             target_playlist_id |-> ToString(Len(playlists) + 1)]

\* the YTM branch after create_playlist: the writer fills the new, empty playlist
WrittenYtm(st) ==
    IF st.raised
    THEN Fail("add_playlist_items failed", <<NewPlaylist(YTM, Concat(st.calls))>>)
    ELSE [error |-> None, created |-> <<NewPlaylist(YTM, Concat(st.calls))>>,
          target_playlist_id |-> ToString(Len(playlists) + 1)]

\* the provider branches of finalize_import_job: the error raised (or None),
\* the playlist created in the target catalog and the id to persist
FinalizeStage(job_id, track_ids, setup_ok, create_ok, fail_at, results) ==
    LET job == jobs[job_id]
        u == job.user_id
    IN IF job.target_provider = TIDAL
       THEN IF ~Connected(u, TIDAL) THEN Fail("TIDAL connection not found for user.", <<>>)
            ELSE IF ~HasTokens(u, TIDAL) THEN Fail("TIDAL access token missing for user.", <<>>)
            ELSE CreateAndAdd(TIDAL, track_ids, create_ok, fail_at)
       ELSE IF job.target_provider = QOBUZ
       THEN IF ~Connected(u, QOBUZ) THEN Fail("Qobuz connection not found for user.", <<>>)
            ELSE IF ~HasTokens(u, QOBUZ) THEN Fail("Qobuz credentials missing for user.", <<>>)
            ELSE CreateAndAdd(QOBUZ, track_ids, create_ok, fail_at)
       ELSE IF job.target_provider = YTM
       THEN IF ~Connected(u, YTM) THEN Fail("YTM connection not found for user.", <<>>)
            ELSE IF ~HasTokens(u, YTM) THEN Fail("YTM authentication headers missing for user.", <<>>)
            ELSE IF ~setup_ok THEN Fail("YTM setup failed", <<>>)
            ELSE IF ~create_ok THEN Fail("create_playlist failed", <<>>)
            ELSE WrittenYtm(_add_tracks_resilient(<<>>, TRUE, track_ids, results))
       ELSE [error |-> None, created |-> <<>>, target_playlist_id |-> None]

\* session.get, gather the matched items; without track ids: DONE, commit
finalize_import_job_start(w) ==
    /\ workers[w].pc = "idle"
    /\ queue # <<>>
    /\ queue[1].func = "finalize_import_job"
    /\ \E ack \in BOOLEAN : Deliver(ack)
    /\ LET job_id == queue[1].job_id
           track_ids == TrackIds(job_id)
       IN IF job_id \notin 1..Len(jobs)
          THEN /\ last_op' = Op("finalize_import_job", "not_found")
               /\ UNCHANGED <<jobs, workers>>
          ELSE IF track_ids = <<>>
          THEN /\ jobs' = [jobs EXCEPT ![job_id].status = DONE]
               /\ last_op' = Op("finalize_import_job", "no_tracks")
               /\ UNCHANGED workers
          ELSE /\ workers' = [workers EXCEPT ![w] =
                                 [pc |-> "finalize", job_id |-> job_id,
                                  loaded |-> jobs[job_id], track_ids |-> track_ids]]
               /\ last_op' = Op("finalize_import_job", "importing")
               /\ UNCHANGED jobs
    /\ UNCHANGED <<connections, items, playlists, requests, response, aside>>

MaxAddCalls == 3

\* what the add_playlist_items calls of one run do: the calls numbered in
\* fails end the same way other than success, the others succeed
AddPatterns ==
    {[k \in 1..MaxAddCalls |-> IF k \in fails THEN kind ELSE "ok"] :
        fails \in SUBSET (1..MaxAddCalls), kind \in AddResults \ {"ok"}}

\* CommitFinalize forgetting job.target_playlist_id = target_playlist_id
CommitFinalizeNoId(job_id, loaded, r) ==
    /\ playlists' = playlists \o r.created
    /\ IF r.error = None
       THEN jobs' = [jobs EXCEPT ![job_id].status = Assign(@, loaded.status, DONE)]
       ELSE jobs' = [jobs EXCEPT
                        ![job_id].status = Assign(@, loaded.status, FAILED),
                        ![job_id].error_message =
                            Assign(@, loaded.error_message, r.error)]
    /\ last_op' = Op("finalize_import_job_finish",
                     IF r.error = None THEN "ok" ELSE "failed")

\* commit target_playlist_id and DONE, or the except branch: commit FAILED and
\* the error message; the playlist created in the target catalog stays
CommitFinalize(job_id, loaded, r) ==
    /\ playlists' = playlists \o r.created
    /\ IF r.error = None
       THEN jobs' = [jobs EXCEPT
                        ![job_id].target_playlist_id =
                            Assign(@, loaded.target_playlist_id, r.target_playlist_id),
                        ![job_id].status = Assign(@, loaded.status, DONE)]
       ELSE jobs' = [jobs EXCEPT
                        ![job_id].status = Assign(@, loaded.status, FAILED),
                        ![job_id].error_message =
                            Assign(@, loaded.error_message, r.error)]
    /\ last_op' = Op("finalize_import_job_finish",
                     IF r.error = None THEN "ok" ELSE "failed")

\* create the playlist, add the tracks, then commit
finalize_import_job_finish(w) ==
    /\ workers[w].pc = "finalize"
    /\ \E setup_ok \in BOOLEAN, create_ok \in BOOLEAN, fail_at \in 0..1,
          results \in AddPatterns :
          CommitFinalize(workers[w].job_id, workers[w].loaded,
                         FinalizeStage(workers[w].job_id, workers[w].track_ids,
                                       setup_ok, create_ok, fail_at, results))
    /\ workers' = [workers EXCEPT ![w] = Idle]
    /\ UNCHANGED <<connections, items, queue, redeliveries, requests, response, aside>>

----------------------------------------------------------------------------
(* routers/imports.py: submit_review, finalize                             *)

OverrideId == "k9"
OverrideData == [id |-> OverrideId, title |-> sAny, artists |-> <<sB>>,
                 duration |-> 0, isrc |-> <<>>, score |-> NoScore]

Decision(item_id, decision, match_id, match_data) ==
    [item_id |-> item_id, decision |-> decision, match_id |-> match_id,
     match_data |-> match_data]

\* the decisions a client can send about one item id
DecisionsOn(item_id) ==
    {Decision(item_id, "confirm", None, <<>>),
     Decision(item_id, "confirm", OverrideId, <<>>),
     Decision(item_id, "confirm", OverrideId, <<OverrideData>>),
     Decision(item_id, "reject", None, <<>>),
     Decision(item_id, "skip", None, <<>>)}

\* the decision lists of a request: one decision, or two about the same id
\* the second a plain confirm or a reject; the ids include one that no item has
DecisionLists ==
    UNION {{<<d>> : d \in DecisionsOn(i)} \cup
           {<<d, e>> : d \in DecisionsOn(i),
                       e \in {Decision(i, "confirm", None, <<>>),
                               Decision(i, "reject", None, <<>>)}} :
             i \in 1..(Len(items) + 1)}

\* apply_decision without the elif branch: a confirm needs an override id
apply_decision_override_only(its, id, d) ==
    IF d.item_id \notin 1..Len(its) \/ its[d.item_id].job_id # id THEN its
    ELSE IF d.decision = "confirm" /\ Truthy(d.match_id)
         THEN [its EXCEPT ![d.item_id].status = MATCHED,
                          ![d.item_id].selected_match_id = d.match_id,
                          ![d.item_id].match_data = IF d.match_data # <<>>
                                                    THEN d.match_data ELSE @]
    ELSE IF d.decision = "reject"
         THEN [its EXCEPT ![d.item_id].status = NOT_FOUND,
                          ![d.item_id].selected_match_id = None]
    ELSE its

\* the body of the loop of submit_review for one decision d
apply_decision(its, id, d) ==
    IF d.item_id \notin 1..Len(its) \/ its[d.item_id].job_id # id THEN its
    ELSE LET item == its[d.item_id]
         IN IF d.decision = "confirm"
            THEN IF Truthy(d.match_id)
                 THEN [its EXCEPT ![d.item_id] =
                         [item EXCEPT !.status = MATCHED,
                                      !.selected_match_id = d.match_id,
                                      !.match_data = IF d.match_data # <<>>
                                                     THEN d.match_data ELSE @]]
                 ELSE IF item.match_data # <<>> /\ Truthy(item.match_data[1].id)
                 THEN [its EXCEPT ![d.item_id] =
                         [item EXCEPT !.status = MATCHED,
                                      !.selected_match_id = item.match_data[1].id]]
                 ELSE its
            ELSE IF d.decision = "reject"
            THEN [its EXCEPT ![d.item_id] =
                    [item EXCEPT !.status = NOT_FOUND, !.selected_match_id = None]]
            ELSE its

\* apply_decisions walking the list from its end
RECURSIVE apply_decisions_reversed(_, _, _)
apply_decisions_reversed(its, id, decision_list) ==
    IF decision_list = <<>> THEN its
    ELSE apply_decisions_reversed(
             apply_decision(its, id, decision_list[Len(decision_list)]), id,
             SubSeq(decision_list, 1, Len(decision_list) - 1))

\* for d in decision_list, in list order
RECURSIVE apply_decisions(_, _, _)
apply_decisions(its, id, decision_list) ==
    IF decision_list = <<>> THEN its
    ELSE apply_decisions(apply_decision(its, id, decision_list[1]), id, Tail(decision_list))

JobIds == 1..(Len(jobs) + 1)

\* an accepted review or finalize request: who sent it about which job, and whether
\* one of its decisions named an item of another job
Request(op, u, id, decision_list) ==
    [op |-> op, outcome |-> "303", user |-> u, job_id |-> id,
     foreign |-> \E k \in 1..Len(decision_list) :
                    /\ decision_list[k].item_id \in 1..Len(items)
                    /\ items[decision_list[k].item_id].job_id # id]

\* Owned without the owner check
OwnedByAnyone(u, id) == id \in 1..Len(jobs)

\* not (not job or job.user_id != user.id)
Owned(u, id) == id \in 1..Len(jobs) /\ jobs[id].user_id = u

submit_review(u, id, decision_list) ==
    /\ IF ~Owned(u, id)
       THEN /\ last_op' = Op("submit_review", "404")
            /\ UNCHANGED <<items, requests>>
       ELSE /\ requests.review < MaxReviews
            /\ requests' = [requests EXCEPT !.review = @ + 1]
            /\ items' = apply_decisions(items, id, decision_list)
            /\ last_op' = Request("submit_review", u, id, decision_list)
    /\ UNCHANGED <<connections, jobs, queue, redeliveries, workers, playlists, response, aside>>

finalize(u, id) ==
    /\ IF ~Owned(u, id)
       THEN /\ last_op' = Op("finalize", "404")
            /\ UNCHANGED <<jobs, queue, requests>>
       ELSE /\ requests.finalize < MaxFinalizes
            /\ requests' = [requests EXCEPT !.finalize = @ + 1]
            /\ jobs' = [jobs EXCEPT ![id].status = IMPORTING]
            /\ queue' = Append(queue, Message("finalize_import_job", id))
            /\ last_op' = Request("finalize", u, id, <<>>)
    /\ UNCHANGED <<connections, items, redeliveries, workers, playlists, response, aside>>

----------------------------------------------------------------------------
(* ytm.py: create_ytm_playlist, the direct path of the /create route        *)

MaxPlaylists == 1

\* De-duplicate by videoId while keeping the order stable
RECURSIVE Deduplicated(_, _, _, _)
Deduplicated(video_ids, labels, k, acc) ==
    IF k > Len(video_ids) THEN acc
    ELSE Deduplicated(video_ids, labels, k + 1,
             IF ~Truthy(video_ids[k]) THEN acc
             ELSE IF video_ids[k] \in acc.seen
                  THEN [acc EXCEPT !.dup_labels = Append(@, labels[k])]
             ELSE [acc EXCEPT !.seen = @ \cup {video_ids[k]},
                              !.unique_video_ids = Append(@, video_ids[k]),
                              !.label_by_id = @ @@ (video_ids[k] :> labels[k])])

Unique(tracks, video_ids) ==
    Deduplicated(video_ids, [i \in 1..Len(tracks) |-> t_label(tracks[i])], 1,
                 [seen |-> {}, unique_video_ids |-> <<>>, dup_labels |-> <<>>,
                  label_by_id |-> <<>>])

\* the report before the writer runs
Missed(missed_tracks, u) ==
    [count |-> missed_tracks.count,
     tracks |-> missed_tracks.tracks,
     duplicates |-> [count |-> Len(u.dup_labels), items |-> u.dup_labels],
     stats |-> [found_total |-> Len(u.unique_video_ids) + Len(u.dup_labels)]]

\* label_by_id.get(vid, f"[insert_failed] {vid}")
FailedLabel(u, vid) ==
    IF vid \in DOMAIN u.label_by_id THEN u.label_by_id[vid]
    ELSE <<"[insert_failed] ", vid>>

\* the report after the writer returned failed_inserts
Reported(missed, u, failed_inserts) ==
    [count |-> missed.count + Len(failed_inserts),
     tracks |-> missed.tracks \o
                [i \in 1..Len(failed_inserts) |-> FailedLabel(u, failed_inserts[i])],
     duplicates |-> missed.duplicates,
     stats |-> [found_total |-> missed.stats.found_total,
                inserted |-> Len(u.unique_video_ids) - Len(failed_inserts)]]

Raised(msg) == [error |-> msg]

\* the playlist ids a caller can pass as target_playlist_id
Targets == {None} \cup {ToString(k) : k \in 1..Len(playlists)}

\* the playlist of that id, as an index of the target catalog
PlaylistIndex(pid) == CHOOSE k \in 1..Len(playlists) : ToString(k) = pid

\* the writer ran on the playlist numbered k (the new one when k is past the
\* end); the response also keeps what the writer was given and what it did
Written(k, missed, u, fetch_ok, results, st) ==
    /\ playlists' = IF k > Len(playlists)
                    THEN Append(playlists, NewPlaylist(YTM, Concat(st.calls)))
                    ELSE [playlists EXCEPT ![k].tracks = @ \o Concat(st.calls)]
    /\ response' = [error |-> IF st.raised THEN "add_playlist_items failed" ELSE None,
                    playlist_id |-> ToString(k),
                    missed |-> Reported(missed, u, st.failed),
                    writer |-> [video_ids |-> u.unique_video_ids,
                                fetch_ok |-> fetch_ok,
                                first_answer |-> ResultOf(results, 1),
                                before |-> IF k > Len(playlists) THEN <<>>
                                           ELSE playlists[k].tracks,
                                existing |-> st.existing,
                                failed |-> st.failed,
                                calls |-> st.calls]]

\* search, de-duplicate, then (unless dry_run) create or update and write
Cloned(tracks, r, u, dry_run) ==
    IF r.raised
    THEN /\ response' = Raised("Not a single track could be found on YouTube Music.")
         /\ UNCHANGED playlists
    ELSE IF dry_run
    THEN /\ response' = [error |-> None, playlist_id |-> None,
                         missed |-> Missed(r.missed, u)]
         /\ UNCHANGED playlists
    ELSE \E target_playlist_id \in Targets, fetch_ok \in BOOLEAN, results \in AddPatterns :
            LET k == IF Truthy(target_playlist_id) THEN PlaylistIndex(target_playlist_id)
                     ELSE Len(playlists) + 1
                before == IF k > Len(playlists) THEN <<>> ELSE playlists[k].tracks
            IN /\ k <= MaxPlaylists
               /\ Written(k, Missed(r.missed, u), u, fetch_ok, results,
                          _add_tracks_resilient(before, fetch_ok, u.unique_video_ids,
                                                results))

\* fault: what raises before the writer runs, if anything
create_ytm_playlist(playlist_link, dry_run, fault) ==
    /\ IF fault = "setup" THEN /\ response' = Raised("ytmusicapi.setup failed")
                               /\ UNCHANGED playlists
       ELSE IF fault = "spotify" THEN /\ response' = Raised("SpotifyError")
                                      /\ UNCHANGED playlists
       ELSE IF fault = "create" /\ ~dry_run
       THEN /\ response' = Raised("Failed to obtain playlist id from YouTube Music response.")
            /\ UNCHANGED playlists
       ELSE \E outcomes \in SearchScenarios,
               order \in CompletionOrders(Len(PlaylistTracks(playlist_link))) :
               Cloned(PlaylistTracks(playlist_link),
                      VideoIdsTable[PlaylistTracks(playlist_link)][outcomes][order],
                      Unique(PlaylistTracks(playlist_link),
                             VideoIdsTable[PlaylistTracks(playlist_link)][outcomes][order].video_ids),
                      dry_run)
    /\ last_op' = Op("create_ytm_playlist", IF response'.error = None THEN "ok" ELSE "raised")
    /\ UNCHANGED <<connections, jobs, items, queue, redeliveries, workers, requests, aside>>

NextCreate ==
    \E playlist_link \in PlaylistIds, dry_run \in BOOLEAN,
       fault \in {"none", "setup", "spotify", "create"} :
       create_ytm_playlist(playlist_link, dry_run, fault)

SpecCreate == Init /\ [][NextCreate]_vars

----------------------------------------------------------------------------

Next ==
    \/ \E u \in Owners, p \in Provider, creds \in Credentials : connect(u, p, creds)
    \/ \E u \in Owners, pids \in PlaylistIdLists, target \in Provider \cup {"deezer"} :
          create_import(u, pids, target)
    \/ \E w \in Workers : process_import_job_start(w)
    \/ \E w \in Workers : process_import_job_finish(w)
    \/ \E u \in Users, id \in JobIds :
          \E ds \in (IF Owned(u, id) THEN DecisionLists ELSE {<<>>}) : submit_review(u, id, ds)
    \/ \E u \in Users, id \in JobIds : finalize(u, id)
    \/ \E w \in Workers : finalize_import_job_start(w)
    \/ \E w \in Workers : finalize_import_job_finish(w)

Spec == Init /\ [][Next]_vars

----------------------------------------------------------------------------
(* The review API with two tenants: each user owns one job that waits for  *)
(* review, with the items its match stage stored                           *)

ReviewScenarios == {sc \in SearchScenarios : \A k \in DOMAIN sc : ~sc[k].raised}

ItemsAfterMatch(job_id, outcomes) ==
    MatchLoop(job_id, PlaylistTracks("pl1"), outcomes, 1, <<>>).new_items

InitReview ==
    /\ connections = {[user_id |-> u, provider |-> p, credentials |-> "tokens"] :
                         u \in Users, p \in {SPOTIFY, TIDAL}}
    /\ jobs = [u \in 1..2 |-> [NewJob(u, "pl1", TIDAL) EXCEPT !.status = WAITING_REVIEW]]
    /\ items \in {ItemsAfterMatch(1, a) \o ItemsAfterMatch(2, b) :
                     a \in ReviewScenarios, b \in ReviewScenarios}
    /\ queue = <<>>
    /\ redeliveries = 0
    /\ workers = [w \in Workers |-> Idle]
    /\ playlists = <<>>
    /\ requests = [review |-> 0, finalize |-> 0]
    /\ last_op = NoOp
    /\ response = NoResponse
    /\ limiter = NewBucket
    /\ client = NoClient
    /\ handlers = [h \in Handlers |-> NoHandler]

NextReview ==
    \/ \E u \in Users, id \in JobIds :
          \E ds \in (IF Owned(u, id) THEN DecisionLists ELSE {<<>>}) : submit_review(u, id, ds)
    \/ \E u \in Users, id \in JobIds : finalize(u, id)

SpecReview == InitReview /\ [][NextReview]_vars

----------------------------------------------------------------------------
(* Properties                                                              *)

\* the items of job j, as item ids
ItemsOf(j) == {k \in 1..Len(items) : items[k].job_id = j}

SourceTracks(j) == PlaylistTracks(jobs[j].source_playlist_id)

\* the step hands a queued message func to a worker
Delivers(func) ==
    /\ queue # <<>>
    /\ queue[1].func = func
    /\ queue[1].job_id \in 1..Len(jobs)
    /\ last_op'.op = func
    /\ <<queue, redeliveries>>' # <<queue, redeliveries>>

\* the edges of the job state machine
FsmEdges ==
    {<<QUEUED, RUNNING>>, <<RUNNING, WAITING_REVIEW>>, <<WAITING_REVIEW, IMPORTING>>,
     <<IMPORTING, DONE>>}
    \cup {<<x, FAILED>> : x \in {QUEUED, RUNNING, WAITING_REVIEW, IMPORTING}}

\* C1: every change of a job's status is QUEUED->RUNNING, RUNNING->WAITING_REVIEW,
\* WAITING_REVIEW->IMPORTING, IMPORTING->DONE or X->FAILED from a non-terminal X;
\* a DONE or FAILED job never changes status again.
C1_StatusChangesFollowTheFsm ==
    [][\A j \in 1..Len(jobs) :
          jobs'[j].status # jobs[j].status
             => <<jobs[j].status, jobs'[j].status>> \in FsmEdges]_vars

\* C2: a match stage delivered for a job that is not QUEUED changes neither the
\* job's status nor its items; a finalize stage delivered for a job that is not
\* IMPORTING creates no playlist, inserts nothing and changes no job state.
C2_StagesRefuseOtherStates ==
    [][/\ (Delivers("process_import_job") /\ jobs[queue[1].job_id].status # QUEUED)
            => (jobs' = jobs /\ items' = items /\ workers' = workers)
       /\ (Delivers("finalize_import_job") /\ jobs[queue[1].job_id].status # IMPORTING)
            => (jobs' = jobs /\ items' = items /\ playlists' = playlists
                /\ workers' = workers)]_vars

MatchId(match) == IF match = <<>> THEN None ELSE match[1].id

\* the candidates a search returned (none when it raised)
Returned(outcome) == IF outcome.raised THEN <<>> ELSE outcome.candidates

MatchedSelected(j) ==
    LET ks == SelectSeq([k \in 1..Len(items) |-> k],
                        LAMBDA k : /\ items[k].job_id = j
                                   /\ items[k].status = MATCHED
                                   /\ Truthy(items[k].selected_match_id))
    IN [i \in 1..Len(ks) |-> items[ks[i]].selected_match_id]

\* C7: the ids the finalize stage hands to the target playlist are exactly the
\* selected ids of the job's items that are MATCHED when the stage reads them,
\* review decisions committed before included; every id inserted into the
\* playlist is one of them.
C7_FinalizeHandsOverMatchedIds ==
    [][/\ Delivers("finalize_import_job")
            => \A w \in Workers :
                  IF workers'[w] # workers[w]
                  THEN /\ workers'[w].pc = "finalize"
                       /\ workers'[w].track_ids = MatchedSelected(queue[1].job_id)
                       /\ workers'[w].track_ids # <<>>
                  ELSE workers' = workers => MatchedSelected(queue[1].job_id) = <<>>
       /\ last_op'.op = "finalize_import_job_finish"
            => \A w \in Workers :
                  (workers[w].pc = "finalize" /\ workers'[w].pc = "idle")
                     => \A p \in (Len(playlists) + 1)..Len(playlists') :
                           Range(playlists'[p].tracks) \subseteq Range(workers[w].track_ids)]_vars

\* a finalize stage is under way with an id a review decision put in, while an
\* UNCERTAIN item of the job that has a selected id is left out
C7_Witness ==
    \E w \in Workers :
       /\ workers[w].pc = "finalize"
       /\ requests.review > 0
       /\ OverrideId \in Range(workers[w].track_ids)
       /\ \E k \in ItemsOf(workers[w].job_id) :
             /\ items[k].status = UNCERTAIN
             /\ Truthy(items[k].selected_match_id)
             /\ items[k].selected_match_id \notin Range(workers[w].track_ids)

EndingWithConfirmOn(k) ==
    {ds \in DecisionLists : ds[Len(ds)].item_id = k /\ ds[Len(ds)].decision = "confirm"}

Prefix(ds) == SubSeq(ds, 1, Len(ds) - 1)

Reject(k) == Decision(k, "reject", None, <<>>)

\* C10: a reject makes the item NOT_FOUND with no selected id whatever its
\* state before; a list is applied in its order, so a confirm followed by a
\* reject of the same item leaves it NOT_FOUND with no selected id.
C10_RejectClearsInListOrder ==
    \A j \in 1..Len(jobs) : \A k \in ItemsOf(j) :
       /\ \A ds \in {<<Reject(k)>>} \cup {<<d, Reject(k)>> : d \in DecisionsOn(k)} :
             /\ apply_decisions(items, j, ds)[k].status = NOT_FOUND
             /\ apply_decisions(items, j, ds)[k].selected_match_id = None
       /\ \A ds \in DecisionLists :
             Len(ds) = 2
                => apply_decisions(items, j, ds)
                     = apply_decisions(apply_decisions(items, j, <<ds[1]>>), j, <<ds[2]>>)

\* a review has rejected an item that has a stored candidate
C10_Witness ==
    /\ last_op.op = "submit_review" /\ last_op.outcome = "303"
    /\ \E k \in 1..Len(items) :
          /\ items[k].status = NOT_FOUND
          /\ items[k].match_data # <<>>
          /\ items[k].selected_match_id = None

----------------------------------------------------------------------------
\* C11: a review or finalize request answered not-found leaves every job, every
\* item and the queue as they were; a request is accepted only for an existing
\* job owned by the requesting user, and an accepted request changes no other
\* job and no item of another job, whatever item ids its decisions name.
C11_ForeignRequestsChangeNothing ==
    [][last_op'.op \in {"submit_review", "finalize"} =>
         IF last_op'.outcome = "404"
         THEN UNCHANGED <<jobs, items, queue, playlists>>
         ELSE /\ last_op'.job_id \in 1..Len(jobs)
              /\ jobs[last_op'.job_id].user_id = last_op'.user
              /\ Len(jobs') = Len(jobs) /\ Len(items') = Len(items)
              /\ \A j \in 1..Len(jobs) : j # last_op'.job_id => jobs'[j] = jobs[j]
              /\ \A k \in 1..Len(items) :
                    items[k].job_id # last_op'.job_id => items'[k] = items[k]]_vars

\* an accepted review whose decisions named an item of the other user's job
C11_Witness ==
    /\ last_op.op = "submit_review"
    /\ last_op.outcome = "303"
    /\ last_op.foreign
    /\ \E k \in 1..Len(items) : items[k].job_id # last_op.job_id

----------------------------------------------------------------------------
\* C12: when the writer returns, every input id is in the existing set E (it was
\* there already or this run inserted it) or in the returned failed ids, for
\* every failure pattern of the add calls and every content of the playlist.
C12_EveryIdInsertedOrFailed ==
    (response.error = None /\ response.playlist_id # None) =>
        \A i \in 1..Len(response.writer.video_ids) :
            response.writer.video_ids[i] \in
                response.writer.existing \cup Range(response.writer.failed)

\* the writer was given two ids for a playlist that already held ids, inserted
\* at least one of them and reported none as failed
C12_Witness ==
    /\ response.error = None /\ response.playlist_id # None
    /\ Len(response.writer.video_ids) = 2
    /\ response.writer.before # <<>>
    /\ response.writer.calls # <<>>
    /\ response.writer.failed = <<>>

----------------------------------------------------------------------------
\* C14: for every run that wrote to a playlist, inserted_count + |failed_ids| =
\* |unique input ids| - |input ids already in existing_items|, whatever the
\* playlist held before.
C14_InsertedCountExcludesExisting ==
    (response.error = None /\ response.playlist_id # None) =>
        response.missed.stats.inserted + Len(response.writer.failed) =
            Len(response.writer.video_ids) -
            Cardinality(Range(response.writer.video_ids) \cap
                        _existing_video_ids(response.writer.before,
                                            response.writer.fetch_ok))

----------------------------------------------------------------------------
\* C15: no failure inside the writer leaves it: whatever the add calls answer
\* (a non-success status, a conflict, any other exception) and whether or not
\* the fetch of the existing items failed, the call returns normally, and an id
\* that was not inserted is reported in failed_ids or was in E already.
C15_WriterAbsorbsFailures ==
    "writer" \in DOMAIN response =>
        /\ response.error = None
        /\ \A i \in 1..Len(response.writer.video_ids) :
              \/ \E c \in 1..Len(response.writer.calls) :
                    response.writer.video_ids[i] \in Range(response.writer.calls[c])
              \/ response.writer.video_ids[i] \in Range(response.writer.failed)
              \/ response.writer.video_ids[i] \in
                    _existing_video_ids(response.writer.before, response.writer.fetch_ok)

\* the fetch of the existing items failed, an add call raised an exception,
\* and the run still returned, with an id in failed_ids
C15_Witness ==
    /\ "writer" \in DOMAIN response
    /\ ~response.writer.fetch_ok
    /\ response.writer.first_answer = "exception"
    /\ response.writer.failed # <<>>
    /\ response.error = None

----------------------------------------------------------------------------
\* a sequence in which no element occurs twice
NoRepeats(s) == \A i, j \in 1..Len(s) : s[i] = s[j] => i = j

----------------------------------------------------------------------------
\* every track of every playlist of the target catalog, in order
AllTracks(ps) == Concat([k \in 1..Len(ps) |-> ps[k].tracks])

\* the ids in the playlist a job points at (none while it has no playlist)
Membership(job, ps) ==
    IF job.target_playlist_id = None THEN {}
    ELSE Range(ps[CHOOSE k \in 1..Len(ps) : ToString(k) = job.target_playlist_id].tracks)

\* worker w finishes a finalize run on a job that an earlier run gave a
\* playlist holding every id this run was handed
SecondRun(w) ==
    /\ workers[w].pc = "finalize"
    /\ workers'[w].pc = "idle"
    /\ jobs[workers[w].job_id].target_playlist_id # None
    /\ Range(workers[w].track_ids) \subseteq Membership(jobs[workers[w].job_id], playlists)

----------------------------------------------------------------------------
(* The searcher alone: get_video_ids on lists of up to MaxSearched tracks, *)
(* every track's search ending in one of SearchOutcomes, the futures       *)
(* completing in every order                                               *)

MaxSearched == 3

SearchOutcomes == {Found(<<CandHello>>), Found(<<CandIsrc>>), SearchError}

\* the lists of 0 to MaxSearched tracks that alternate the two source tracks
SearchedLists ==
    {[i \in 1..n |-> IF i % 2 = 1 THEN TrackHello ELSE TrackSong] : n \in 0..MaxSearched}

\* one call of get_video_ids; the response keeps the inputs next to the output
get_video_ids_call(tracks, outcomes, order) ==
    /\ response' =
          [error |-> IF get_video_ids(tracks, outcomes, order).raised
                     THEN "Not a single track could be found on YouTube Music."
                     ELSE None,
           search |-> [tracks |-> tracks, outcomes |-> outcomes, order |-> order,
                       video_ids |-> get_video_ids(tracks, outcomes, order).video_ids]]
    /\ last_op' = Op("get_video_ids", IF response'.error = None THEN "ok" ELSE "raised")
    /\ UNCHANGED <<connections, jobs, items, queue, redeliveries, workers,
                   playlists, requests, aside>>

NextSearch ==
    \E tracks \in SearchedLists :
       \E outcomes \in [1..Len(tracks) -> SearchOutcomes],
          order \in CompletionOrders(Len(tracks)) :
          get_video_ids_call(tracks, outcomes, order)

SpecSearch == Init /\ [][NextSearch]_vars

\* C18: whatever the order in which the search tasks complete, the list the
\* searcher returns is as long as its input, and its entry i is what the search
\* for track i gave (None when it found nothing or failed).
C18_ResolvedAlignedWithInput ==
    ("search" \in DOMAIN response /\ response.error = None) =>
        /\ Len(response.search.video_ids) = Len(response.search.tracks)
        /\ \A i \in 1..Len(response.search.tracks) :
              response.search.video_ids[i] =
                  _search_track_exactish(response.search.tracks[i],
                                         response.search.outcomes[i])

\* three tasks completed last to first, the first and the last track resolved
\* to different ids and the middle one not at all
C18_Witness ==
    /\ "search" \in DOMAIN response
    /\ response.error = None
    /\ response.search.order = <<3, 2, 1>>
    /\ response.search.video_ids = <<"k1", None, "k4">>

----------------------------------------------------------------------------
\* worker w ends the match stage of its job in this step
MatchFinish(w) == workers[w].pc = "match" /\ workers'[w].pc = "idle"

\* the items this step stored
StoredItems == SubSeq(items', Len(items) + 1, Len(items'))

Effective(job_id, outcomes) ==
    IF jobs[job_id].target_provider = TIDAL
    THEN Authorized(jobs[job_id].user_id, TIDAL, outcomes)
    ELSE outcomes

\* the search for track i, ending as outcome, resolves the track
Resolves(job_id, track, outcome) ==
    /\ ~outcome.raised
    /\ IF jobs[job_id].target_provider = YTM
       THEN Truthy(_search_track_exactish(track, outcome))
       ELSE MatchTable[track][outcome.candidates][2] # NOT_FOUND

\* one search raises and the search for another track resolves it
OneFailsOneResolves(job_id, outcomes) ==
    \E i, j \in 1..Len(SourceOf(job_id)) :
        /\ Effective(job_id, outcomes)[i].raised
        /\ Resolves(job_id, SourceOf(job_id)[j], Effective(job_id, outcomes)[j])

----------------------------------------------------------------------------
(* The calls a worker stage sends to the target catalog, in the order the   *)
(* code issues them, with the acquire() calls on _rate_limiter between them *)

\* the calls to a target catalog
OutboundCalls == {"search", "get_playlist", "create_playlist", "add_items"}

\* an entry of the log: the call, what it carried and how it ended
Acquire == [call |-> "acquire", args |-> <<>>, answer |-> "ok"]
Call(name, args, answer) == [call |-> name, args |-> args, answer |-> answer]

SearchAnswer(outcome) == IF outcome.raised THEN "exception" ELSE "ok"

\* f"{track['name']} {track['artists'][0]}" if track['artists'] else track['name']
Query(track) ==
    IF track.artists # <<>> THEN track.name \o <<" ">> \o track.artists[1] ELSE track.name

\* the index of the first search that raises, or Len(outcomes) when none does
FirstRaised(outcomes) ==
    IF \E k \in 1..Len(outcomes) : outcomes[k].raised
    THEN CHOOSE k \in 1..Len(outcomes) :
            outcomes[k].raised /\ \A j \in 1..(k - 1) : ~outcomes[j].raised
    ELSE Len(outcomes)

\* the match stage: _search_track_exactish acquires before ytmusic.search for
\* every track; the TIDAL and Qobuz loops call search_tracks until one raises
MatchCalls(provider, tracks, outcomes) ==
    IF provider = YTM
    THEN Concat([i \in 1..Len(tracks) |->
                    <<Acquire, Call("search", Query(tracks[i]), SearchAnswer(outcomes[i]))>>])
    ELSE [i \in 1..FirstRaised(outcomes) |->
             Call("search", Query(tracks[i]), SearchAnswer(outcomes[i]))]

\* the requests of add_tracks up to the one that raises
Requested(chunks, fail_at) ==
    [i \in 1..(IF fail_at = 0 THEN Len(chunks) ELSE Min(fail_at, Len(chunks))) |->
        Call("add_items", chunks[i], IF i = fail_at THEN "exception" ELSE "ok")]

\* the finalize stage: create_playlist, then add_tracks (one request per
\* chunk, up to the one that raises) or the writer of ytm.py (the fetch of the
\* existing items, then its add_playlist_items calls, each after an acquire)
FinalizeCalls(provider, track_ids, create_ok, fail_at, results) ==
    <<Call("create_playlist", <<>>, IF create_ok THEN "ok" ELSE "exception")>> \o
    (IF ~create_ok THEN <<>>
     ELSE IF provider = YTM
     THEN <<Acquire, Call("get_playlist", <<>>, "ok")>> \o
          Concat([i \in 1..Len(_add_tracks_resilient(<<>>, TRUE, track_ids, results).sent) |->
                     <<Acquire,
                       Call("add_items",
                            _add_tracks_resilient(<<>>, TRUE, track_ids, results).sent[i].ids,
                            _add_tracks_resilient(<<>>, TRUE, track_ids, results).sent[i].answer)>>])
     ELSE Requested(Batches(track_ids), fail_at))

\* the lists of ids a finalize stage hands over
HandedOver ==
    {<<"k1">>, <<"k1", "k1">>, <<"k1", "k4">>, <<"k4", "k1">>, <<"k1", "k4", "k2">>,
     <<"k1", "k4", "k1">>, <<"k1", "k4", "k2", "k3">>}

\* a match stage of process_import_job that reached its searches
match_stage_calls(provider, outcomes) ==
    /\ response' = [error |-> None, stage |-> "match", provider |-> provider,
                    log |-> MatchCalls(provider, PlaylistTracks("pl1"), outcomes)]
    /\ last_op' = Op("process_import_job", provider)
    /\ UNCHANGED <<connections, jobs, items, queue, redeliveries, workers,
                   playlists, requests, aside>>

\* a finalize stage of finalize_import_job that reached create_playlist
finalize_stage_calls(provider, track_ids, create_ok, fail_at, results) ==
    /\ response' = [error |-> None, stage |-> "finalize", provider |-> provider,
                    track_ids |-> track_ids,
                    log |-> FinalizeCalls(provider, track_ids, create_ok, fail_at, results)]
    /\ last_op' = Op("finalize_import_job", provider)
    /\ UNCHANGED <<connections, jobs, items, queue, redeliveries, workers,
                   playlists, requests, aside>>

NextCalls ==
    \/ \E provider \in {TIDAL, QOBUZ, YTM}, outcomes \in SearchScenarios :
          match_stage_calls(provider, outcomes)
    \/ \E provider \in {TIDAL, QOBUZ}, track_ids \in HandedOver,
          create_ok \in BOOLEAN, fail_at \in 0..1 :
          finalize_stage_calls(provider, track_ids, create_ok, fail_at, <<>>)
    \/ \E track_ids \in HandedOver, create_ok \in BOOLEAN, results \in AddPatterns :
          finalize_stage_calls(YTM, track_ids, create_ok, 0, results)

SpecCalls == Init /\ [][NextCalls]_vars

----------------------------------------------------------------------------
(* ytm.py: _TokenBucket.acquire called by the search tasks of              *)
(* get_video_ids, one step per read or write of the bucket's attributes    *)

\* thread t moves to pc, keeping now and read as given
At(t, pc, now, read) ==
    [limiter.threads EXCEPT ![t] = [pc |-> pc, now |-> now, read |-> read]]

Leaves(t) == [limiter.threads EXCEPT ![t] = Outside]

LimiterStep(t, name) ==
    /\ last_op' = Op(name, ToString(t))
    /\ UNCHANGED <<connections, jobs, items, queue, redeliveries, workers, playlists,
                   requests, response, client, handlers>>

\* the refill without the clamp to the capacity
acquire_refill_read_unclamped(t) ==
    /\ limiter.threads[t].pc = "outside"
    /\ limiter.granted + Cardinality({u \in Threads : limiter.threads[u].pc # "outside"})
          < MaxGranted
    /\ limiter' = [limiter EXCEPT !.threads =
                      At(t, "refill", limiter.clock,
                         limiter.tokens + (limiter.clock - limiter.last))]
    /\ LimiterStep(t, "acquire")

\* now = time.monotonic(); elapsed = now - self.last;
\* the right-hand side of self.tokens = min(self.capacity, self.tokens + elapsed * self.rate)
acquire_refill_read(t) ==
    /\ limiter.threads[t].pc = "outside"
    /\ limiter.granted + Cardinality({u \in Threads : limiter.threads[u].pc # "outside"})
          < MaxGranted
    /\ limiter' = [limiter EXCEPT !.threads =
                      At(t, "refill", limiter.clock,
                         Min(BucketCapacity,
                             limiter.tokens + (limiter.clock - limiter.last)))]
    /\ LimiterStep(t, "acquire")

\* the store of self.tokens, then `if self.tokens < 1`
acquire_refill_write(t) ==
    /\ limiter.threads[t].pc = "refill"
    /\ limiter' = [limiter EXCEPT
                      !.tokens = limiter.threads[t].read,
                      !.threads = At(t, IF limiter.threads[t].read < 1 THEN "needed" ELSE "take",
                                     limiter.threads[t].now, 0)]
    /\ LimiterStep(t, "refill")

\* else: the right-hand side of self.tokens -= 1
acquire_take_read(t) ==
    /\ limiter.threads[t].pc = "take"
    /\ limiter' = [limiter EXCEPT !.threads =
                      At(t, "taken", limiter.threads[t].now, limiter.tokens - 1)]
    /\ LimiterStep(t, "take")

\* the store of self.tokens -= 1; self.last = now; return
acquire_take_write(t) ==
    /\ limiter.threads[t].pc = "taken"
    /\ limiter' = [limiter EXCEPT !.tokens = limiter.threads[t].read,
                                  !.last = limiter.threads[t].now,
                                  !.granted = @ + 1,
                                  !.threads = Leaves(t)]
    /\ LimiterStep(t, "taken")

\* needed = (1 - self.tokens) / self.rate: read holds the time to wake up at
acquire_needed(t) ==
    /\ limiter.threads[t].pc = "needed"
    /\ limiter' = [limiter EXCEPT !.threads =
                      At(t, "sleep", limiter.threads[t].now,
                         limiter.threads[t].now + Max(1 - limiter.tokens, 0))]
    /\ LimiterStep(t, "needed")

\* time.sleep(needed) returns; now2 = time.monotonic(); the right-hand side of
\* self.tokens = min(self.capacity, self.tokens + (now2 - now) * self.rate) - 1
acquire_wake_read(t) ==
    /\ limiter.threads[t].pc = "sleep"
    /\ limiter.clock >= limiter.threads[t].read
    /\ limiter' = [limiter EXCEPT !.threads =
                      At(t, "woken", limiter.clock,
                         Min(BucketCapacity,
                             limiter.tokens + (limiter.clock - limiter.threads[t].now)) - 1)]
    /\ LimiterStep(t, "wake")

\* the store of self.tokens; self.last = now2; self.tokens = max(self.tokens, 0)
acquire_wake_write(t) ==
    /\ limiter.threads[t].pc = "woken"
    /\ limiter' = [limiter EXCEPT !.tokens = Max(limiter.threads[t].read, 0),
                                  !.last = limiter.threads[t].now,
                                  !.granted = @ + 1,
                                  !.threads = Leaves(t)]
    /\ LimiterStep(t, "woken")

\* a tick of time.monotonic() goes by
tick ==
    /\ limiter.clock < MaxClock
    /\ limiter' = [limiter EXCEPT !.clock = @ + 1]
    /\ last_op' = Op("tick", "")
    /\ UNCHANGED <<connections, jobs, items, queue, redeliveries, workers, playlists,
                   requests, response, client, handlers>>

\* the bucket after earlier acquires took some of its tokens
InitLimiter ==
    /\ connections = {} /\ jobs = <<>> /\ items = <<>> /\ queue = <<>>
    /\ redeliveries = 0
    /\ workers = [w \in Workers |-> Idle]
    /\ playlists = <<>>
    /\ requests = [review |-> 0, finalize |-> 0]
    /\ last_op = NoOp
    /\ response = NoResponse
    /\ limiter \in {Bucket(tokens) : tokens \in 0..BucketCapacity}
    /\ client = NoClient
    /\ handlers = [h \in Handlers |-> NoHandler]

NextLimiter ==
    \/ \E t \in Threads : acquire_refill_read(t)
    \/ \E t \in Threads : acquire_refill_write(t)
    \/ \E t \in Threads : acquire_take_read(t)
    \/ \E t \in Threads : acquire_take_write(t)
    \/ \E t \in Threads : acquire_needed(t)
    \/ \E t \in Threads : acquire_wake_read(t)
    \/ \E t \in Threads : acquire_wake_write(t)
    \/ tick

SpecLimiter == InitLimiter /\ [][NextLimiter]_vars

\* C22: whatever the interleaving of the threads inside acquire(), the token
\* count never drops below 0 and the acquires granted never exceed the tokens
\* that were available: those the bucket started with plus one per tick.
C22_NoTokenTakenTwice ==
    /\ limiter.tokens >= 0
    /\ limiter.granted <= limiter.start + limiter.clock

----------------------------------------------------------------------------
(* matcher.py alone: match_track and calculate_score on source tracks and   *)
(* candidates of the catalog, and on dictionaries with null values         *)

CandHalloFar == [id |-> "k5", title |-> sHallo, artists |-> <<sAdele>>,
                 duration |-> 320, isrc |-> <<>>]
CandNoArtist == [id |-> "k6", title |-> sHello, artists |-> <<>>,
                 duration |-> 300, isrc |-> <<>>]

MatchSources == {TrackHello, TrackSong}
MatchCandidates ==
    {CandHello, CandHelloLive, CandHallo, CandIsrc, CandHalloFar, CandNoArtist}

MaxCandidates == 2

CandidateLists == UNION {[1..n -> MatchCandidates] : n \in 0..MaxCandidates}

\* the keys of a dictionary that can hold None
Nullable == {"artists", "duration"}

\* source.get("duration_ms", 0), source.get("artists", []), ... on a dictionary
\* whose keys in nulls hold None: what the falsy value does where the code
\* only tests it
WithNulls(d, nulls) ==
    [k \in DOMAIN d |->
        IF k \in {"duration", "duration_ms"} /\ "duration" \in nulls THEN 0
        ELSE IF k = "artists" /\ "artists" \in nulls THEN <<>>
        ELSE d[k]]

\* calculate_score raises TypeError: `for a in None` in the comprehensions over
\* source.get("artists", []) and target.get("artists", []), `None * 1000` in
\* tgt_dur = tgt_dur_raw * 1000; equal ISRCs return before either
ScoreRaises(source, src_nulls, target, tgt_nulls) ==
    /\ ~(source.isrc # <<>> /\ target.isrc # <<>> /\ source.isrc = target.isrc)
    /\ \/ "artists" \in src_nulls
       \/ "artists" \in tgt_nulls
       \/ "duration" \in tgt_nulls

\* a call that has not returned yet: the function and its arguments
Pending(func, args) == [error |-> "pending", func |-> func, args |-> args]

\* match_track returns
match_track_call ==
    /\ response.error = "pending" /\ response.func = "match_track"
    /\ response' = [error |-> None, source |-> response.args.source_track,
                    candidates |-> response.args.candidates,
                    match |-> match_track(response.args.source_track,
                                          response.args.candidates)[1],
                    status |-> match_track(response.args.source_track,
                                           response.args.candidates)[2]]
    /\ last_op' = Op("match_track", "ok")
    /\ UNCHANGED <<connections, jobs, items, queue, redeliveries, workers,
                   playlists, requests, aside>>

\* calculate_score returns or raises; its dictionaries hold None under the
\* keys in src_nulls and tgt_nulls
calculate_score_call ==
    /\ response.error = "pending" /\ response.func = "calculate_score"
    /\ response' =
          IF ScoreRaises(response.args.source, response.args.src_nulls,
                         response.args.target, response.args.tgt_nulls)
          THEN [error |-> "TypeError", source |-> response.args.source,
                src_nulls |-> response.args.src_nulls,
                target |-> response.args.target, tgt_nulls |-> response.args.tgt_nulls]
          ELSE [error |-> None, source |-> response.args.source,
                src_nulls |-> response.args.src_nulls,
                target |-> response.args.target, tgt_nulls |-> response.args.tgt_nulls,
                score |-> calculate_score(
                              WithNulls(response.args.source, response.args.src_nulls),
                              WithNulls(response.args.target, response.args.tgt_nulls))]
    /\ last_op' = Op("calculate_score", IF response'.error = None THEN "ok" ELSE "raised")
    /\ UNCHANGED <<connections, jobs, items, queue, redeliveries, workers,
                   playlists, requests, aside>>

\* the calls made: match_track on a source track and a list of candidates,
\* calculate_score on a source track and a candidate
InitMatch ==
    /\ connections = {} /\ jobs = <<>> /\ items = <<>> /\ queue = <<>>
    /\ redeliveries = 0
    /\ workers = [w \in Workers |-> Idle]
    /\ playlists = <<>>
    /\ requests = [review |-> 0, finalize |-> 0]
    /\ last_op = NoOp
    /\ response \in
          {Pending("match_track", [source_track |-> t, candidates |-> c]) :
              t \in MatchSources, c \in CandidateLists}
          \cup {Pending("calculate_score",
                        [source |-> t, src_nulls |-> sn, target |-> c, tgt_nulls |-> tn]) :
                   t \in MatchSources, sn \in SUBSET Nullable,
                   c \in MatchCandidates, tn \in SUBSET Nullable}
    /\ limiter = NewBucket
    /\ client = NoClient
    /\ handlers = [h \in Handlers |-> NoHandler]

NextMatch == match_track_call \/ calculate_score_call

SpecMatch == InitMatch /\ [][NextMatch]_vars

\* the highest score of the candidates, 0 for an empty list
BestScore(source_track, candidates) ==
    IF candidates = <<>> THEN Zero
    ELSE RatMax({calculate_score(source_track, candidates[k]) : k \in 1..Len(candidates)})

\* C23: match_track returns (None, NOT_FOUND) for an empty list; otherwise
\* MATCHED iff the best score is above 0.90, UNCERTAIN iff it is from 0.75 to
\* 0.90, NOT_FOUND iff it is below 0.75; the returned best is None iff the
\* classification is NOT_FOUND, and else a candidate with the best score.
C23_ClassificationFollowsThresholds ==
    "status" \in DOMAIN response =>
        /\ response.candidates = <<>> =>
              (response.match = <<>> /\ response.status = NOT_FOUND)
        /\ response.status = MATCHED <=>
              RatGT(BestScore(response.source, response.candidates), Rat(9, 10))
        /\ response.status = UNCERTAIN <=>
              /\ RatGE(BestScore(response.source, response.candidates), Rat(3, 4))
              /\ RatGE(Rat(9, 10), BestScore(response.source, response.candidates))
        /\ response.status = NOT_FOUND <=>
              RatGT(Rat(3, 4), BestScore(response.source, response.candidates))
        /\ response.match = <<>> <=> response.status = NOT_FOUND
        /\ response.match # <<>> =>
              response.match[1].score = BestScore(response.source, response.candidates)

\* a best score of exactly 0.90 was classified UNCERTAIN and the candidate returned
C23_Witness ==
    /\ "status" \in DOMAIN response
    /\ response.status = UNCERTAIN
    /\ response.match # <<>>
    /\ response.match[1].score = Rat(9, 10)

\* the source track and the candidate carry the same non-empty ISRC
SameIsrc(source, target) ==
    source.isrc # <<>> /\ target.isrc # <<>> /\ source.isrc = target.isrc

\* C24: when source and candidate carry equal, non-empty ISRCs, calculate_score
\* returns exactly 1.0 whatever the titles, artists and durations are (also
\* when they hold None), and match_track on a list that holds such a candidate
\* answers MATCHED.
C24_EqualIsrcScoresOne ==
    /\ ("score" \in DOMAIN response \/ "src_nulls" \in DOMAIN response) =>
          (SameIsrc(response.source, response.target) =>
              (response.error = None /\ response.score = One))
    /\ "status" \in DOMAIN response =>
          ((\E k \in 1..Len(response.candidates) :
                SameIsrc(response.source, response.candidates[k])) =>
              response.status = MATCHED)

\* calculate_score answered 1.0 for a pair with equal ISRCs whose titles and
\* artists differ and whose artists and duration hold None
C24_Witness ==
    /\ "score" \in DOMAIN response
    /\ SameIsrc(response.source, response.target)
    /\ response.source.name # response.target.title
    /\ response.source.artists # response.target.artists
    /\ response.src_nulls = Nullable /\ response.tgt_nulls = Nullable
    /\ response.score = One

\* C25: calculate_score is total on missing metadata: when artists and
\* durations hold None it returns a score of at least 0 and does not raise.
C25_ScoreTotalOnMissingMetadata ==
    "src_nulls" \in DOMAIN response =>
        /\ response.error = None
        /\ RatGE(response.score, Zero)

----------------------------------------------------------------------------
(* The normalizers on free-form values                                     *)

\* pieces of titles and artist names: letters, blanks, featuring clauses,
\* bracketed clauses, remaster suffixes, punctuation
Fragments ==
    {<<"A">>,
     <<"b">>,
     <<" ">>,
     <<"(","f","e","a","t","."," ","c",")">>,
     <<"(","f","e","a","t",".",")">>,
     <<"[","x","]">>,
     <<"[">>,
     <<"]">>,
     <<"-"," ","R","e","m","a","s","t","e","r","e","d"," ","2","0","1","1">>,
     <<"-">>,
     <<"!">>,
     <<"(","f","e">>,
     <<"a","t","."," ","d",")">>,
     <<"&">>,
     <<" "," ">>}

MaxFragments == 2

RECURSIVE Flat(_)
Flat(parts) == IF parts = <<>> THEN <<>> ELSE Head(parts) \o Flat(Tail(parts))

NormalizerInputs ==
    {Flat(parts) : parts \in UNION {[1..n -> Fragments] : n \in 0..MaxFragments}}

\* a value read from a dictionary: a string, or None (absent |-> TRUE)
Values ==
    {[absent |-> FALSE, s |-> s] : s \in NormalizerInputs}
    \cup {[absent |-> TRUE, s |-> <<>>]}

Present(s) == [absent |-> FALSE, s |-> s]

\* str(v): the text "None" for None
Str(v) == IF v.absent THEN <<"N","o","n","e">> ELSE v.s

\* normalize_string(v): `if not s: return ""` covers None and ""
normalize_value(v) == IF v.absent THEN <<>> ELSE normalize_string(v.s)

\* _normalize(str(v or "")), the searcher on titles
q_title(v) == _normalize(IF v.absent THEN <<>> ELSE v.s)

\* _normalize(str(artist0)), the searcher on the first artist's name
q_artist(v) == _normalize(Str(v))

Normalized(func, v, once, twice) ==
    [error |-> None, normalizer |-> func, value |-> v, once |-> once, twice |-> twice]

normalize_string_call ==
    /\ response.error = "pending" /\ response.func = "normalize_string"
    /\ response' = Normalized("normalize_string", response.args,
                              normalize_value(response.args),
                              normalize_value(Present(normalize_value(response.args))))
    /\ last_op' = Op("normalize_string", "ok")
    /\ UNCHANGED <<connections, jobs, items, queue, redeliveries, workers,
                   playlists, requests, aside>>

q_title_call ==
    /\ response.error = "pending" /\ response.func = "q_title"
    /\ response' = Normalized("q_title", response.args, q_title(response.args),
                              q_title(Present(q_title(response.args))))
    /\ last_op' = Op("q_title", "ok")
    /\ UNCHANGED <<connections, jobs, items, queue, redeliveries, workers,
                   playlists, requests, aside>>

q_artist_call ==
    /\ response.error = "pending" /\ response.func = "q_artist"
    /\ response' = Normalized("q_artist", response.args, q_artist(response.args),
                              q_artist(Present(q_artist(response.args))))
    /\ last_op' = Op("q_artist", "ok")
    /\ UNCHANGED <<connections, jobs, items, queue, redeliveries, workers,
                   playlists, requests, aside>>

InitNormalize ==
    /\ connections = {} /\ jobs = <<>> /\ items = <<>> /\ queue = <<>>
    /\ redeliveries = 0
    /\ workers = [w \in Workers |-> Idle]
    /\ playlists = <<>>
    /\ requests = [review |-> 0, finalize |-> 0]
    /\ last_op = NoOp
    /\ response \in {Pending(f, v) : f \in {"normalize_string", "q_title", "q_artist"},
                                     v \in Values}
    /\ limiter = NewBucket
    /\ client = NoClient
    /\ handlers = [h \in Handlers |-> NoHandler]

NextNormalize == normalize_string_call \/ q_title_call \/ q_artist_call

SpecNormalize == InitNormalize /\ [][NextNormalize]_vars

\* C26: each normalizer of the matcher and the searcher is idempotent and
\* total: normalizing a normalized string changes nothing, and an empty or
\* absent value normalizes to the empty string.
C26_NormalizeIdempotentAndTotal ==
    "normalizer" \in DOMAIN response =>
        /\ response.error = None
        /\ response.twice = response.once
        /\ (response.value.absent \/ response.value.s = <<>>) => response.once = <<>>

----------------------------------------------------------------------------
(* SpotifyClient._request                                                  *)

MaxRefreshes == 3

\* HTTP statuses the API answers with
Statuses == {200, 401, 404, 500}

\* SpotifyClient(access_token=..., refresh_token=...): the client id and secret
\* come from the environment
SpotifyClient(access_token, refresh_token, client_secret) ==
    [access_token |-> access_token, refresh_token |-> refresh_token,
     client_secret |-> client_secret]

\* one thing the client did during a request
Event(kind, token, status) == [kind |-> kind, token |-> token, status |-> status]

\* the SpotifyError of a response that raise_for_status rejects
ApiError(status) ==
    IF status < 400 THEN None
    ELSE IF status = 404 THEN "Resource not found"
    ELSE IF status = 401 THEN "Spotify API error (401)"
    ELSE "Spotify API error (500)"

\* _refresh_access_token: the refresh-token grant, or the client-credentials
\* grant when there is no refresh token; granted says whether the accounts
\* service answers with a token, rotated whether it sends a new refresh token
Refreshed(c, granted, rotated) ==
    IF c.refresh_token = <<>> /\ ~c.client_secret
    THEN [client |-> c, error |-> "No refresh token available.", trace |-> <<>>]
    ELSE IF ~granted
    THEN [client |-> c,
          error |-> IF c.refresh_token = <<>>
                    THEN "Failed to authenticate with Client Credentials"
                    ELSE "Failed to refresh token",
          trace |-> <<Event("refresh", <<>>, 400)>>]
    ELSE LET token == <<c.access_token[1] + 1>>
         IN [client |-> [c EXCEPT !.access_token = token,
                                  !.refresh_token =
                                      IF c.refresh_token # <<>> /\ rotated
                                      THEN <<c.refresh_token[1] + 1>> ELSE @],
             error |-> None,
             trace |-> <<Event("refresh", token, 200)>>]

\* _request: the request, and on a 401 answer one refresh and one more request
Requested401(c, first, granted, rotated, retry) ==
    IF c.access_token = <<>>
    THEN [client |-> c, error |-> "No access token provided.", trace |-> <<>>]
    ELSE LET sent == <<Event("request", c.access_token, first)>>
         IN IF first # 401
            THEN [client |-> c, error |-> ApiError(first), trace |-> sent]
            ELSE LET r == Refreshed(c, granted, rotated)
                 IN IF r.error # None
                    THEN [client |-> r.client, error |-> r.error, trace |-> sent \o r.trace]
                    ELSE [client |-> r.client, error |-> ApiError(retry),
                          trace |-> sent \o r.trace
                                    \o <<Event("request", r.client.access_token, retry)>>]

_request(first, granted, rotated, retry) ==
    /\ client.access_token # <<>> => client.access_token[1] < MaxRefreshes \/ first # 401
    /\ client' = Requested401(client, first, granted, rotated, retry).client
    /\ response' = [error |-> Requested401(client, first, granted, rotated, retry).error,
                    trace |-> Requested401(client, first, granted, rotated, retry).trace]
    /\ last_op' = Op("_request", IF response'.error = None THEN "ok" ELSE "SpotifyError")
    /\ UNCHANGED <<connections, jobs, items, queue, redeliveries, workers,
                   playlists, requests, limiter, handlers>>

\* a client as process_import_job constructs it from the stored credentials
InitClient ==
    /\ connections = {} /\ jobs = <<>> /\ items = <<>> /\ queue = <<>>
    /\ redeliveries = 0
    /\ workers = [w \in Workers |-> Idle]
    /\ playlists = <<>>
    /\ requests = [review |-> 0, finalize |-> 0]
    /\ last_op = NoOp
    /\ response = NoResponse
    /\ limiter = NewBucket
    /\ client \in {SpotifyClient(<<0>>, refresh_token, client_secret) :
                      refresh_token \in {<<>>, <<0>>}, client_secret \in BOOLEAN}
    /\ handlers = [h \in Handlers |-> NoHandler]

NextClient ==
    \E first \in Statuses, granted \in BOOLEAN, rotated \in BOOLEAN, retry \in Statuses :
        _request(first, granted, rotated, retry)

SpecClient == InitClient /\ [][NextClient]_vars

\* C27: a request answered 401 is followed by one refresh; after a successful
\* refresh the on_token_refresh callback is invoked exactly once with the new
\* token, before the request is retried exactly once with that token; when the
\* retry is answered 401 too an error is raised and nothing more is sent.
C27_OneRefreshOneCallbackOneRetry ==
    ("trace" \in DOMAIN response /\ response.trace # <<>>) =>
        IF response.trace[1].status # 401
        THEN Len(response.trace) = 1
        ELSE IF Len(response.trace) >= 2 /\ response.trace[2].status = 200
        THEN /\ Len(response.trace) = 4
             /\ response.trace[2].kind = "refresh"
             /\ response.trace[3] = Event("callback", response.trace[2].token, 0)
             /\ response.trace[4].kind = "request"
             /\ response.trace[4].token = response.trace[2].token
             /\ response.trace[4].status = 401 => response.error # None
        ELSE Len(response.trace) <= 2 /\ response.error # None

----------------------------------------------------------------------------
(* Concurrent connects: callback, auth_ytm, auth_qobuz                     *)

\* the user whose connect requests run side by side
ConnectingUsers == {1}

\* the credentials request h brings: the exchanged tokens, the pasted
\* headers, the login's answer
SubmittedBy(h) == "tokens" \o ToString(h)

Row(u, p, creds) == [user_id |-> u, provider |-> p, credentials |-> creds]

\* session.add(conn); session.commit() without the table's unique constraint
CommittedUnconstrained(rows, h) ==
    IF h.conn = {}
    THEN [rows |-> rows \cup {Row(h.user_id, h.provider, h.credentials)}, outcome |-> "ok"]
    ELSE [rows |-> (rows \ {c \in rows : c.user_id = h.user_id /\ c.provider = h.provider})
                   \cup {Row(h.user_id, h.provider, h.credentials)},
          outcome |-> "ok"]

\* session.add(conn); session.commit(): an INSERT when the select found no
\* row, which unique_user_provider rejects when a row for (user_id, provider)
\* exists by now; an UPDATE of the row found otherwise
Committed(rows, h) ==
    IF h.conn = {}
    THEN IF \E c \in rows : c.user_id = h.user_id /\ c.provider = h.provider
         THEN [rows |-> rows, outcome |-> "IntegrityError"]
         ELSE [rows |-> rows \cup {Row(h.user_id, h.provider, h.credentials)},
               outcome |-> "ok"]
    ELSE [rows |-> (rows \ {c \in rows : c.user_id = h.user_id /\ c.provider = h.provider})
                   \cup {Row(h.user_id, h.provider, h.credentials)},
          outcome |-> "ok"]

\* session.exec(select(Connection).where(...)).first()
connect_select(h, u, p) ==
    /\ handlers[h].pc = "idle"
    /\ handlers' = [handlers EXCEPT ![h] =
                       [pc |-> "selected", user_id |-> u, provider |-> p,
                        credentials |-> SubmittedBy(h), conn |-> Connection(u, p)]]
    /\ last_op' = Op("select", "ok")
    /\ UNCHANGED <<connections, jobs, items, queue, redeliveries, workers, playlists,
                   requests, response, limiter, client>>

\* conn = Connection(...) or conn.credentials = ...; session.add; session.commit
connect_commit(h) ==
    /\ handlers[h].pc = "selected"
    /\ connections' = Committed(connections, handlers[h]).rows
    /\ last_op' = [op |-> "connect", outcome |-> Committed(connections, handlers[h]).outcome,
                   user_id |-> handlers[h].user_id, provider |-> handlers[h].provider,
                   credentials |-> handlers[h].credentials,
                   found |-> handlers[h].conn # {}]
    /\ handlers' = [handlers EXCEPT ![h] = NoHandler]
    /\ UNCHANGED <<jobs, items, queue, redeliveries, workers, playlists,
                   requests, response, limiter, client>>

NextConnect ==
    \/ \E h \in Handlers, u \in ConnectingUsers, p \in Provider : connect_select(h, u, p)
    \/ \E h \in Handlers : connect_commit(h)

SpecConnect == Init /\ [][NextConnect]_vars

\* C28: whatever the interleaving of connect requests, two concurrent ones for
\* the same user and provider included, there is at most one Connection per
\* (user, provider), and a connect that commits leaves that one Connection
\* holding the credentials it brought.
C28_OneConnectionPerUserAndProvider ==
    /\ \A u \in Users, p \in Provider : Cardinality(Connection(u, p)) <= 1
    /\ (last_op.op = "connect" /\ last_op.outcome = "ok") =>
          Connection(last_op.user_id, last_op.provider)
              = {Row(last_op.user_id, last_op.provider, last_op.credentials)}

\* two requests both found no Connection; the second to commit was rejected
\* and the Connection of the first is the only one
C28_Witness ==
    /\ last_op.op = "connect" /\ last_op.outcome = "IntegrityError"
    /\ Cardinality(Connection(last_op.user_id, last_op.provider)) = 1

----------------------------------------------------------------------------
(* TidalClient.add_tracks and QobuzClient.add_tracks on lists of ids       *)

MaxIds == 120

\* which request raises, 0 for none
MaxFailAt == 3

\* add_tracks returns or raises the client's error; the requests it has sent
add_tracks_call ==
    /\ response.error = "pending" /\ response.func = "add_tracks"
    /\ response' =
          [error |-> IF add_tracks(response.args.track_ids, response.args.fail_at).raised
                     THEN IF response.args.provider = TIDAL THEN "TidalError" ELSE "QobuzError"
                     ELSE None,
           provider |-> response.args.provider,
           track_ids |-> response.args.track_ids,
           requests |-> [k \in 1..Len(Requested(Batches(response.args.track_ids),
                                                response.args.fail_at)) |->
                            Requested(Batches(response.args.track_ids),
                                      response.args.fail_at)[k].args]]
    /\ last_op' = Op("add_tracks", IF response'.error = None THEN "ok" ELSE "raised")
    /\ UNCHANGED <<connections, jobs, items, queue, redeliveries, workers,
                   playlists, requests, aside>>

\* add_tracks is called by a TIDAL or a Qobuz client with 0 to MaxIds ids
InitAddTracks ==
    /\ connections = {} /\ jobs = <<>> /\ items = <<>> /\ queue = <<>>
    /\ redeliveries = 0
    /\ workers = [w \in Workers |-> Idle]
    /\ playlists = <<>>
    /\ requests = [review |-> 0, finalize |-> 0]
    /\ last_op = NoOp
    /\ response \in {Pending("add_tracks",
                             [provider |-> p, track_ids |-> [i \in 1..n |-> i],
                              fail_at |-> f]) :
                        p \in {TIDAL, QOBUZ}, n \in 0..MaxIds, f \in 0..MaxFailAt}
    /\ limiter = NewBucket
    /\ client = NoClient
    /\ handlers = [h \in Handlers |-> NoHandler]

NextAddTracks == add_tracks_call

SpecAddTracks == InitAddTracks /\ [][NextAddTracks]_vars

\* C30: add_tracks sends the ids in consecutive requests of at most 50 ids, in
\* input order: request k carries ids 50(k-1)+1 .. min(50k, n); a call that
\* returns has sent ceil(n/50) requests that together carry every id exactly
\* once, and a call with no ids sends nothing.
C30_BatchesOfFiftyInOrder ==
    "requests" \in DOMAIN response =>
        /\ \A k \in 1..Len(response.requests) :
              /\ Len(response.requests[k]) \in 1..50
              /\ response.requests[k] =
                    SubSeq(response.track_ids, 50 * (k - 1) + 1,
                           IF 50 * k < Len(response.track_ids)
                           THEN 50 * k ELSE Len(response.track_ids))
        /\ response.error = None =>
              /\ Len(response.requests) = (Len(response.track_ids) + 49) \div 50
              /\ Concat(response.requests) = response.track_ids
        /\ response.track_ids = <<>> => response.requests = <<>>

\* a call with more than 100 ids returned after three requests, the last one
\* shorter than 50
C30_Witness ==
    /\ "requests" \in DOMAIN response
    /\ response.error = None
    /\ Len(response.track_ids) > 100
    /\ Len(response.requests) = 3
    /\ Len(response.requests[3]) < 50

----------------------------------------------------------------------------
(* The writer of ytm.py on lists of ids and patterns of failures           *)

MaxWritten == 4

\* ids handed to the writer: short lists with repeats, and lists longer than
\* one batch
WrittenIds == {"k1", "k2", "k3"}
ShortLists ==
    UNION {[1..n -> WrittenIds] : n \in 0..MaxWritten} \cup {<<"k1", "k2", "k3", "k4">>}
LongLists == {[i \in 1..n |-> ToString(i)] : n \in {YTM_BATCH_SIZE + 1, 2 * YTM_BATCH_SIZE + 1}}

\* the failure of the call numbered k: a status other than success, a 409, or
\* another exception
FailKind(k) == <<"non_success", "conflict", "exception">>[(k % 3) + 1]

\* the calls numbered in fails end other than in success
Failing(fails, len) == [k \in 1..len |-> IF k \in fails THEN FailKind(k) ELSE "ok"]

\* a batch of n ids that keeps failing is sent in at most 2n - 1 calls
ShortPatterns == {Failing(fails, 2 * MaxWritten - 1) : fails \in SUBSET (1..(2 * MaxWritten - 1))}
LongPatterns ==
    {Failing(fails, 4 * YTM_BATCH_SIZE + 1) :
        fails \in {{}, {1}, {1, 2}, {2}, 1..(4 * YTM_BATCH_SIZE + 1)}}

\* what the playlist holds when the writer starts and whether the fetch of
\* its items succeeds: an id the writer does not know of is refused with 409
\* in every call that carries it
Playlists == {[tracks |-> <<>>, fetch_ok |-> TRUE],
              [tracks |-> <<"k2">>, fetch_ok |-> TRUE],
              [tracks |-> <<"k2">>, fetch_ok |-> FALSE]}

LongPlaylists == {[tracks |-> <<>>, fetch_ok |-> TRUE],
                  [tracks |-> <<"7">>, fetch_ok |-> FALSE]}

\* _add_tracks_resilient returns
_add_tracks_resilient_call ==
    /\ response.error = "pending" /\ response.func = "_add_tracks_resilient"
    /\ response' =
          [error |-> None,
           video_ids |-> response.args.video_ids,
           before |-> response.args.tracks,
           fetch_ok |-> response.args.fetch_ok,
           failed |-> _add_tracks_resilient(response.args.tracks, response.args.fetch_ok,
                                            response.args.video_ids,
                                            response.args.results).failed,
           after |-> _add_tracks_resilient(response.args.tracks, response.args.fetch_ok,
                                           response.args.video_ids,
                                           response.args.results).present,
           sent |-> _add_tracks_resilient(response.args.tracks, response.args.fetch_ok,
                                          response.args.video_ids,
                                          response.args.results).sent]
    /\ last_op' = Op("_add_tracks_resilient", "ok")
    /\ UNCHANGED <<connections, jobs, items, queue, redeliveries, workers,
                   playlists, requests, aside>>

InitWriter ==
    /\ connections = {} /\ jobs = <<>> /\ items = <<>> /\ queue = <<>>
    /\ redeliveries = 0
    /\ workers = [w \in Workers |-> Idle]
    /\ playlists = <<>>
    /\ requests = [review |-> 0, finalize |-> 0]
    /\ last_op = NoOp
    /\ response \in
          {Pending("_add_tracks_resilient",
                   [video_ids |-> ids, tracks |-> pl.tracks, fetch_ok |-> pl.fetch_ok,
                    results |-> results]) :
              ids \in ShortLists, pl \in Playlists, results \in ShortPatterns}
          \cup {Pending("_add_tracks_resilient",
                        [video_ids |-> ids, tracks |-> pl.tracks, fetch_ok |-> pl.fetch_ok,
                         results |-> results]) :
                   ids \in LongLists, pl \in LongPlaylists, results \in LongPatterns}
    /\ limiter = NewBucket
    /\ client = NoClient
    /\ handlers = [h \in Handlers |-> NoHandler]

NextWriter == _add_tracks_resilient_call

SpecWriter == InitWriter /\ [][NextWriter]_vars

\* the ids whose add_playlist_items call with that id alone failed
FailedAlone(sent) ==
    {sent[i].ids[1] : i \in {j \in 1..Len(sent) : Len(sent[j].ids) = 1 /\ sent[j].answer # "ok"}}

\* the ids some successful call carried
Inserted(sent) ==
    UNION {Range(sent[i].ids) : i \in {j \in 1..Len(sent) : sent[j].answer = "ok"}}

\* C31: a refused batch of more than one id is retried as its first half and
\* then its second half, so each of its ids is in the end inserted or failed;
\* failed_ids holds exactly the ids whose call with that id alone failed, and
\* when no such call failed failed_ids is empty and every id given is in the
\* playlist.
C31_FailedAreTheSinglesThatFailed ==
    ("sent" \in DOMAIN response /\ "failed" \in DOMAIN response) =>
        /\ Range(response.failed) = FailedAlone(response.sent)
        /\ FailedAlone(response.sent) = {} =>
              /\ response.failed = <<>>
              /\ Range(response.video_ids) \subseteq response.after
        /\ \A i \in 1..Len(response.sent) :
              (Len(response.sent[i].ids) > 1 /\ response.sent[i].answer # "ok") =>
                  /\ i < Len(response.sent)
                  /\ response.sent[i + 1].ids =
                        Upto(response.sent[i].ids, Len(response.sent[i].ids) \div 2)
                  /\ Range(response.sent[i].ids) \subseteq
                        Inserted(response.sent) \cup Range(response.failed)

\* four ids, one of them refused whenever it is sent: it alone is in
\* failed_ids and the other three were inserted
C31_Witness ==
    /\ "sent" \in DOMAIN response /\ "failed" \in DOMAIN response
    /\ Len(response.video_ids) = 4
    /\ Len(response.failed) = 1
    /\ Cardinality(Inserted(response.sent)) = 3
    /\ \E i \in 1..Len(response.sent) :
          Len(response.sent[i].ids) = 4 /\ response.sent[i].answer # "ok"

\* the list without the later occurrences of an id
RECURSIVE FirstOccurrences(_, _)
FirstOccurrences(ids, acc) ==
    IF ids = <<>> THEN acc
    ELSE FirstOccurrences(Tail(ids),
                          IF Head(ids) \in Range(acc) THEN acc ELSE Append(acc, Head(ids)))

\* a is b with some elements left out
RECURSIVE IsSubsequence(_, _)
IsSubsequence(a, b) ==
    IF a = <<>> THEN TRUE
    ELSE IF b = <<>> THEN FALSE
    ELSE IF Head(a) = Head(b) THEN IsSubsequence(Tail(a), Tail(b))
    ELSE IsSubsequence(a, Tail(b))

\* the ids of the successful calls, in call order
InsertedInOrder(sent) ==
    Concat([i \in 1..Len(sent) |-> IF sent[i].answer = "ok" THEN sent[i].ids ELSE <<>>])

----------------------------------------------------------------------------
(* _search_track_exactish on one track and one list of search results     *)

sHell == <<"H","e","l","l">>

\* results whose title is a part of the source title, or which carry another
\* artist under the same title
CandHell == [id |-> "k7", title |-> sHell, artists |-> <<sAdele>>,
             duration |-> 300, isrc |-> <<>>]
CandHelloB == [id |-> "k8", title |-> sHello, artists |-> <<sB>>,
               duration |-> 300, isrc |-> <<>>]

SearchResults ==
    {CandHello, CandHelloLive, CandHallo, CandIsrc, CandNoArtist, CandHell, CandHelloB}

MaxResults == 2

\* lists of up to MaxResults results, and lists longer than the part the
\* heuristic inspects whose only passing result is at position n
ResultLists ==
    UNION {[1..n -> SearchResults] : n \in 0..MaxResults}
    \cup {[i \in 1..(SearchInspected + 1) |-> IF i = n THEN CandHello ELSE CandIsrc] :
             n \in (SearchInspected - 1)..(SearchInspected + 1)}

\* _search_track_exactish returns
_search_track_exactish_call ==
    /\ response.error = "pending" /\ response.func = "_search_track_exactish"
    /\ response' = [error |-> None, track |-> response.args.track,
                    outcome |-> response.args.outcome,
                    video_id |-> _search_track_exactish(response.args.track,
                                                        response.args.outcome)]
    /\ last_op' = Op("_search_track_exactish", "ok")
    /\ UNCHANGED <<connections, jobs, items, queue, redeliveries, workers,
                   playlists, requests, aside>>

InitPick ==
    /\ connections = {} /\ jobs = <<>> /\ items = <<>> /\ queue = <<>>
    /\ redeliveries = 0
    /\ workers = [w \in Workers |-> Idle]
    /\ playlists = <<>>
    /\ requests = [review |-> 0, finalize |-> 0]
    /\ last_op = NoOp
    /\ response \in
          {Pending("_search_track_exactish", [track |-> t, outcome |-> o]) :
              t \in {TrackHello, TrackSong},
              o \in {Found(c) : c \in ResultLists} \cup {SearchError}}
    /\ limiter = NewBucket
    /\ client = NoClient
    /\ handlers = [h \in Handlers |-> NoHandler]

NextPick == _search_track_exactish_call

SpecPick == InitPick /\ [][NextPick]_vars

\* the first artist of the source track, normalized
FirstArtist(track) == _normalize(IF track.artists # <<>> THEN track.artists[1] ELSE <<>>)

\* the artists test: the joined, lowercased artists of the result contain the
\* first source artist or are contained in it
ArtistsAgree(track, cand) ==
    \/ Contains(Lower(Join(cand.artists)), FirstArtist(track))
    \/ Contains(FirstArtist(track), Lower(Join(cand.artists)))

\* the id of the first of the leading 7 results in passing, else of the first
\* result, else None
FirstOf(candidates, passing) ==
    IF \E k \in passing : k <= 7
    THEN candidates[CHOOSE k \in passing : k <= 7 /\ \A j \in passing : k <= j].id
    ELSE IF candidates # <<>> THEN candidates[1].id
    ELSE None

\* C33 as stated: the searcher returns the first inspected result whose
\* normalized title is contained in the normalized source title and whose
\* artists agree with the first source artist, else the first result, else none.
C33_ResultTitleInsideSourceTitle ==
    ("video_id" \in DOMAIN response /\ ~response.outcome.raised) =>
        response.video_id =
            FirstOf(response.outcome.candidates,
                    {k \in 1..Len(response.outcome.candidates) :
                        /\ Contains(_normalize(response.track.name),
                                    _normalize(response.outcome.candidates[k].title))
                        /\ ArtistsAgree(response.track, response.outcome.candidates[k])})

\* C33 amended: the searcher returns the first of the leading 7 results whose
\* normalized title contains the normalized source title and whose artists
\* agree with the first source artist, else the first result, else none; a
\* search that raises gives none.
C33_SourceTitleInsideResultTitle ==
    "video_id" \in DOMAIN response =>
        IF response.outcome.raised THEN response.video_id = None
        ELSE response.video_id =
                FirstOf(response.outcome.candidates,
                        {k \in 1..Len(response.outcome.candidates) :
                            /\ Contains(_normalize(response.outcome.candidates[k].title),
                                        _normalize(response.track.name))
                            /\ ArtistsAgree(response.track, response.outcome.candidates[k])})

\* the second result was returned: its title contains the source title, the
\* title of the first one is only a part of the source title
C33_Witness ==
    /\ "video_id" \in DOMAIN response
    /\ response.track = TrackHello
    /\ response.outcome = Found(<<CandHell, CandHelloLive>>)
    /\ response.video_id = CandHelloLive.id

----------------------------------------------------------------------------
(* The duration part of calculate_score                                    *)

\* a value under "duration_ms" or "duration": an integer, None, or no such key
IntValue(n) == [kind |-> "int", n |-> n]
NoneValue == [kind |-> "none", n |-> 0]
NoKey == [kind |-> "absent", n |-> 0]

\* source durations in ms around a candidate of 300 s, and 0
SourceDurations ==
    {IntValue(300000 + d) : d \in {-15001, -15000, -5001, -5000, -1, 0, 1,
                              5000, 5001, 15000, 15001}}
    \cup {IntValue(0), NoneValue, NoKey}

\* candidate durations in seconds
CandidateDurations == {IntValue(n) : n \in {0, 284, 285, 295, 300, 305, 315, 316}}
                      \cup {NoneValue, NoKey}

\* d.get(key, 0): the default only when the key is absent
Get(v) == IF v.kind = "absent" THEN IntValue(0) ELSE v

\* lines 44-57 of calculate_score: `tgt_dur_raw * 1000` raises TypeError on None
duration_part(src, tgt) ==
    IF Get(tgt).kind = "none" THEN [error |-> "TypeError", score |-> Zero]
    ELSE [error |-> None,
          score |-> IF Get(src).kind = "none" THEN One
                    ELSE duration_score([duration_ms |-> Get(src).n],
                                        [duration |-> Get(tgt).n])]

duration_score_call ==
    /\ response.error = "pending" /\ response.func = "duration_score"
    /\ response' = [error |-> duration_part(response.args.src, response.args.tgt).error,
                    src |-> response.args.src, tgt |-> response.args.tgt,
                    duration_score |-> duration_part(response.args.src,
                                                     response.args.tgt).score]
    /\ last_op' = Op("duration_score", IF response'.error = None THEN "ok" ELSE "raised")
    /\ UNCHANGED <<connections, jobs, items, queue, redeliveries, workers,
                   playlists, requests, aside>>

InitDuration ==
    /\ connections = {} /\ jobs = <<>> /\ items = <<>> /\ queue = <<>>
    /\ redeliveries = 0
    /\ workers = [w \in Workers |-> Idle]
    /\ playlists = <<>>
    /\ requests = [review |-> 0, finalize |-> 0]
    /\ last_op = NoOp
    /\ response \in {Pending("duration_score", [src |-> a, tgt |-> b]) :
                        a \in SourceDurations, b \in CandidateDurations}
    /\ limiter = NewBucket
    /\ client = NoClient
    /\ handlers = [h \in Handlers |-> NoHandler]

NextDuration == duration_score_call

SpecDuration == InitDuration /\ [][NextDuration]_vars

\* |src_ms - 1000 * cand_s|
Diff(src, tgt) ==
    IF src.n >= 1000 * tgt.n THEN src.n - 1000 * tgt.n ELSE 1000 * tgt.n - src.n

\* C34: the duration sub-score is 1.0 if either duration is missing or zero,
\* else 1.0 if diff <= 5000, 0.5 if 5000 < diff <= 15000 and 0.0 if
\* diff > 15000, with diff = |src_ms - 1000 * cand_s|.
C34_DurationScoreBySteps ==
    "duration_score" \in DOMAIN response =>
        /\ response.error = None
        /\ response.duration_score =
              IF \/ response.src.kind # "int" \/ response.src.n = 0
                 \/ response.tgt.kind # "int" \/ response.tgt.n = 0
              THEN One
              ELSE IF Diff(response.src, response.tgt) <= 5000 THEN One
              ELSE IF Diff(response.src, response.tgt) <= 15000 THEN Rat(1, 2)
              ELSE Zero

----------------------------------------------------------------------------
(* _TokenBucket.acquire with a single caller                               *)

\* the caller
Caller == 1

NextBucket ==
    \/ acquire_refill_read(Caller)
    \/ acquire_refill_write(Caller)
    \/ acquire_take_read(Caller)
    \/ acquire_take_write(Caller)
    \/ acquire_needed(Caller)
    \/ acquire_wake_read(Caller)
    \/ acquire_wake_write(Caller)
    \/ tick

SpecBucket == InitLimiter /\ [][NextBucket]_vars

\* max(2 * rate, 1) for the configured rate
TwiceRateOrOne == IF 2 * YTM_QPS > 1 THEN 2 * YTM_QPS ELSE 1

\* tokens + elapsed * rate clamped to the capacity: time is counted in ticks
\* of 1 / rate seconds
Replenished(tokens, elapsed) ==
    IF tokens + elapsed > TwiceRateOrOne THEN TwiceRateOrOne ELSE tokens + elapsed

----------------------------------------------------------------------------
(* routers/playlists.py: create_import and routers/imports.py: finalize,   *)
(* one step per commit and per enqueue, next to the worker that consumes   *)
(* the queue                                                               *)

\* a request handler that is not running
NoRequest == [pc |-> "idle", func |-> "", user_id |-> 0, pids |-> <<>>,
              target_provider |-> "", job_id |-> 0]

\* the stage a request enqueues
StageOf(func) ==
    IF func = "create_import" THEN "process_import_job" ELSE "finalize_import_job"

\* Provider(target_provider), the Connection lookup; the loop is entered with
\* the pids that are not blank
create_import_request(h, u, pids, target_provider) ==
    /\ handlers[h].pc = "idle"
    /\ IF target_provider \notin Provider
       THEN /\ last_op' = Op("create_import", "400")
            /\ UNCHANGED handlers
       ELSE IF ~Connected(u, target_provider)
       THEN /\ last_op' = Op("create_import", "not_connected")
            /\ UNCHANGED handlers
       ELSE /\ handlers' = [handlers EXCEPT ![h] =
                               [pc |-> "commit", func |-> "create_import", user_id |-> u,
                                pids |-> SelectSeq(pids, Truthy),
                                target_provider |-> target_provider, job_id |-> 0]]
            /\ last_op' = Op("create_import", "accepted")
    /\ UNCHANGED <<connections, jobs, items, queue, redeliveries, workers, playlists,
                   requests, response, limiter, client>>

\* the commit that is left out: the handler goes on to enqueue the stage
create_import_commit_left_out(h) ==
    /\ handlers[h].pc = "commit"
    /\ handlers[h].pids # <<>>
    /\ Len(jobs) < MaxJobs
    /\ handlers' = [handlers EXCEPT ![h].pc = "enqueue", ![h].job_id = Len(jobs) + 1,
                                    ![h].pids = Tail(@)]
    /\ last_op' = Op("create_import", "committed")
    /\ UNCHANGED <<connections, jobs, items, queue, redeliveries, workers, playlists,
                   requests, response, limiter, client>>

\* session.add(job); session.commit(); session.refresh(job): the job is stored
\* as QUEUED and its id is known; after the last pid the handler redirects
create_import_commit(h) ==
    /\ handlers[h].pc = "commit"
    /\ IF handlers[h].pids = <<>>
       THEN /\ handlers' = [handlers EXCEPT ![h] = NoRequest]
            /\ last_op' = Op("create_import", "created")
            /\ UNCHANGED jobs
       ELSE /\ Len(jobs) < MaxJobs
            /\ jobs' = Append(jobs, NewJob(handlers[h].user_id, handlers[h].pids[1],
                                           handlers[h].target_provider))
            /\ handlers' = [handlers EXCEPT ![h].pc = "enqueue",
                                            ![h].job_id = Len(jobs) + 1,
                                            ![h].pids = Tail(@)]
            /\ last_op' = Op("create_import", "committed")
    /\ UNCHANGED <<connections, items, queue, redeliveries, workers, playlists,
                   requests, response, limiter, client>>

\* q.enqueue(process_import_job, job.id), q.enqueue(finalize_import_job, job.id)
enqueue(h) ==
    /\ handlers[h].pc = "enqueue"
    /\ queue' = Append(queue, Message(StageOf(handlers[h].func), handlers[h].job_id))
    /\ handlers' = [handlers EXCEPT ![h] =
                       IF handlers[h].func = "create_import"
                       THEN [@ EXCEPT !.pc = "commit"] ELSE NoRequest]
    /\ last_op' = Op(handlers[h].func, "enqueued")
    /\ UNCHANGED <<connections, jobs, items, redeliveries, workers, playlists,
                   requests, response, limiter, client>>

\* the operator may repeat the finalize request
MaxRequests == 3

\* session.get, the owner check, job.status = IMPORTING, session.commit()
finalize_commit(h, u, id) ==
    /\ handlers[h].pc = "idle"
    /\ IF ~Owned(u, id)
       THEN /\ last_op' = Op("finalize", "404")
            /\ UNCHANGED <<jobs, requests, handlers>>
       ELSE /\ requests.finalize < MaxRequests
            /\ requests' = [requests EXCEPT !.finalize = @ + 1]
            /\ jobs' = [jobs EXCEPT ![id].status = IMPORTING]
            /\ handlers' = [handlers EXCEPT ![h] =
                               [NoRequest EXCEPT !.pc = "enqueue", !.func = "finalize",
                                                 !.user_id = u, !.job_id = id]]
            /\ last_op' = Op("finalize", "committed")
    /\ UNCHANGED <<connections, items, queue, redeliveries, workers, playlists,
                   response, limiter, client>>

\* the owner has connected Spotify and TIDAL; every message is delivered once
InitEnqueue ==
    /\ connections = {[user_id |-> u, provider |-> p, credentials |-> "tokens"] :
                         u \in Owners, p \in {SPOTIFY, TIDAL}}
    /\ jobs = <<>> /\ items = <<>> /\ queue = <<>>
    /\ redeliveries = MaxRedeliveries
    /\ workers = [w \in Workers |-> Idle]
    /\ playlists = <<>>
    /\ requests = [review |-> 0, finalize |-> 0]
    /\ last_op = NoOp
    /\ response = NoResponse
    /\ limiter = NewBucket
    /\ client = NoClient
    /\ handlers = [h \in Handlers |-> NoRequest]

NextEnqueue ==
    \/ \E h \in Handlers, u \in Owners, pids \in PlaylistIdLists,
          target \in {TIDAL, "deezer"} : create_import_request(h, u, pids, target)
    \/ \E h \in Handlers : create_import_commit(h)
    \/ \E h \in Handlers, u \in Users, id \in JobIds : finalize_commit(h, u, id)
    \/ \E h \in Handlers : enqueue(h)
    \/ \E w \in Workers : process_import_job_start(w)
    \/ \E w \in Workers : process_import_job_finish(w)
    \/ \E w \in Workers : finalize_import_job_start(w)
    \/ \E w \in Workers : finalize_import_job_finish(w)

SpecEnqueue == InitEnqueue /\ [][NextEnqueue]_vars

\* the status a request commits before it enqueues its stage
CommittedBy(func) == IF func = "create_import" THEN QUEUED ELSE IMPORTING

----------------------------------------------------------------------------

----------------------------------------------------------------------------

----------------------------------------------------------------------------
(* The worker runs a stage to its end: every adapter call returns or raises *)

SpecRuns ==
    /\ SpecEnqueue
    /\ \A w \in Workers : WF_vars(process_import_job_finish(w))
    /\ \A w \in Workers : WF_vars(finalize_import_job_finish(w))

\* worker w ends a run of the stage whose program counter is pc
Ends(w, pc) == workers[w].pc = pc /\ workers'[w].pc = "idle"

\* every stage that was started comes to its end
RunsEnd == \A w \in Workers : (workers[w].pc # "idle") ~> (workers[w].pc = "idle")

\* the run of worker w that ends leaves the job in one of the statuses
EndsIn(w, pc, statuses) ==
    Ends(w, pc) => jobs'[workers[w].job_id].status \in statuses

----------------------------------------------------------------------------

\* the most add_playlist_items calls a list of n ids can cause: 2 * b - 1 for
\* each batch of b ids
MostCalls(n) == 2 * n - ((n + YTM_BATCH_SIZE - 1) \div YTM_BATCH_SIZE)

\* C40: the writer returns for every input list and every pattern of failures;
\* a call that follows a refused call of more than one id carries a shorter,
\* non-empty list, no call is empty, and a batch of n ids causes at most
\* 2n - 1 calls.
C40_SplitsShrinkAndCallsAreBounded ==
    ("sent" \in DOMAIN response /\ "video_ids" \in DOMAIN response) =>
        /\ Len(response.sent) <= MostCalls(Len(response.video_ids))
        /\ \A i \in 1..Len(response.sent) :
              /\ response.sent[i].ids # <<>>
              /\ Len(response.sent[i].ids) <= YTM_BATCH_SIZE
              /\ (i > 1 /\ Len(response.sent[i - 1].ids) > 1
                        /\ response.sent[i - 1].answer # "ok") =>
                     Len(response.sent[i].ids) < Len(response.sent[i - 1].ids)

\* every call on four different ids was refused: seven calls, the last of them
\* with one id, and all four ids given up
C40_Witness ==
    /\ "sent" \in DOMAIN response /\ "failed" \in DOMAIN response
    /\ Len(response.video_ids) = 4
    /\ Len(response.sent) = 7
    /\ \A i \in 1..Len(response.sent) : response.sent[i].answer # "ok"
    /\ Len(response.failed) = 4

====
